---- MODULE Spec2Model ----
(***************************************************************************)
(* A model of the capability-dispatch framework of backend/core:          *)
(* class Framework of src/backend/core/framework.py (the plugin map, the  *)
(* capability index, validators, dependencies, the result cache, the      *)
(* middleware stack, the error handlers and the metrics).                 *)
(*                                                                         *)
(* Plugin ids, capability names, arguments and handler results are small  *)
(* integers.  Plugin id 0 stands for the falsy id (None / the empty       *)
(* string).  Code supplied by the caller (initialize, cleanup, handlers,  *)
(* hooks, validators, error handlers) is an input of the action that      *)
(* runs it: each action draws the outcome of every such call with \E.     *)
(*                                                                         *)
(* Left out, because nothing below reads them: metrics["plugins_loaded"], *)
(* plugin_dependencies, extensions, config_store, running, the logger.    *)
(***************************************************************************)
EXTENDS Integers, Sequences, FiniteSets, TLC

\* ------------------------------------------------------------- bounds
MaxPlugins == 2
MaxCaps == 2
MaxValidators == 1
MaxMiddleware == 1
MaxArgs == 2
MaxVals == 1
MaxCalls == 2
MaxChain == 2
MaxEvents == 2
MaxHooks == 3
MaxPipelines == 1
MaxNodes == 3
MaxEdges == 3
MaxExecutions == 2
MaxTasks == 1
MaxConcurrent == 2
MaxBuiltNodes == 2
MaxBuiltEdges == 1
MaxKeys == 2
MaxInputKeys == 2
MaxOutputKeys == 1
MaxOut == 2
MaxLog == 3
MaxSuspended == 1
MaxTypes == 2
MaxAtoms == 2
MaxDepth == 1
MaxCandidates == 2

PluginIds == 1 .. MaxPlugins
PluginTypes == 1 .. MaxTypes
Caps == 1 .. MaxCaps
Args == 1 .. MaxArgs

\* _should_cache refuses a dict or list whose str() is longer than 10000
\* characters: result 0 stands for such a result, 1 .. MaxVals for the others.
LargeResult == 0
Vals == LargeResult .. MaxVals

\* Limit cache size: `if len(self.capability_cache) > 1000`, and the number of
\* oldest entries _cleanup_cache removes.
CacheCapacity == 1000
CacheEvictBatch == 100

\* The falsy plugin id: `not plugin.plugin_id`, `plugin_id: str = None`.
NoPlugin == 0

VARIABLES
    plugins,              \* Framework.plugins: insertion-ordered dict, as the
                          \* sequence of its values [plugin_id, capabilities]
    global_capabilities,  \* Framework.global_capabilities: name -> list of ids
    validators,           \* Framework.validators: the number of validators added
    error_handlers,       \* Framework.error_handlers: the error types handled
    middleware_stack,     \* Framework.middleware_stack: the middleware, in order
    capability_cache,     \* Framework.capability_cache: insertion-ordered dict,
                          \* as the sequence of its items [key, value]
    metrics,              \* Framework.metrics: calls, errors, cache_hits
    cm,                   \* a call_multiple suspended in its loop: the iterator
                          \* over the provider list and the entries so far
    dispatched,           \* history: how many times each plugin's handler was
                          \* invoked by call_capability (the code keeps no
                          \* such count)
    last,                 \* what the most recent operation was given and returned
    hooks,                \* Plugin.hooks of each plugin object: event name ->
                          \* list of hooks, a hook being what it does when called
    hlast,                \* what the most recent hook operation did
    pipelines,            \* PipelineEngine.pipelines: insertion-ordered dict,
                          \* as the sequence of its Pipeline objects
    active_executions,    \* PipelineEngine.active_executions: insertion-ordered
                          \* dict, as the sequence of its records
    plugin_instances,     \* PluginRegistry.plugin_instances: the ids it holds
    uuids,                \* how many uuid4() ids have been drawn
    tasks,                \* the execute_pipeline calls suspended at an await:
                          \* the locals of _execute_pipeline_internal
    plast,                \* what the most recent pipeline operation did
    event_log,            \* history: the plugin_loaded and plugin_unloaded
                          \* events emitted, in order, where they are followed
    suspended,            \* the load_plugin and unload_plugin calls suspended
                          \* at the await of initialize() or cleanup()
    plugin_types,         \* PluginRegistry.plugin_types: the type names it holds
    plugins_dir,          \* the plugin candidates under Loader.plugins_dir, in
                          \* the order rglob yields them
    loaded_modules        \* Loader.loaded_modules: the module names it holds

hvars == <<hooks, hlast>>

pvars == <<pipelines, active_executions, plugin_instances, uuids, tasks, plast>>

lvars == <<event_log, suspended>>

rvars == <<plugin_types, plugins_dir, loaded_modules>>

vars == <<plugins, global_capabilities, validators, error_handlers,
          middleware_stack, capability_cache, metrics, cm, dispatched, last,
          hvars, pvars, lvars, rvars>>

fvars == <<plugins, global_capabilities, validators, error_handlers,
           middleware_stack, capability_cache, metrics, cm, dispatched, last,
           lvars>>

\* ------------------------------------------------------------ helpers

\* The ids of a sequence of plugin instances, in order.
PluginSeqIds(ps) == [i \in 1 .. Len(ps) |-> ps[i].plugin_id]

Range(s) == {s[i] : i \in 1 .. Len(s)}

\* `plugin_id in self.plugins`
IsRegistered(ps, pid) == pid \in Range(PluginSeqIds(ps))

\* `self.plugins[plugin_id]`
PluginOf(ps, pid) == ps[CHOOSE i \in 1 .. Len(ps) : ps[i].plugin_id = pid]

\* Python's list.remove(x): drops the first occurrence of x.
ListRemove(s, x) ==
    IF x \notin Range(s) THEN s
    ELSE LET k == CHOOSE i \in 1 .. Len(s) :
                      s[i] = x /\ \A j \in 1 .. i - 1 : s[j] # x
         IN  [i \in 1 .. Len(s) - 1 |-> IF i < k THEN s[i] ELSE s[i + 1]]

\* `del self.plugins[plugin_id]`
DictDelete(ps, pid) == SelectSeq(ps, LAMBDA inst : inst.plugin_id # pid)

\* ----------------------------------------------------- events and hooks

\* trigger_hooks without its try/except (lines 72-77): a raising hook makes it
\* raise.
TriggerHooksPropagates(pid, hookRaises) == hookRaises

\* Plugin.trigger_hooks: every hook of the event runs inside try/except
\* Exception, so a raising hook never makes trigger_hooks raise.
\* hookRaises: a hook of the plugin raises.
TriggerHooksRaises(pid, hookRaises) == FALSE

\* Framework.emit_event: trigger_hooks on every loaded plugin, in the order of
\* the plugin map.  [to: the plugins reached, raised: an exception left it].
EmitEvent(ps, hookRaises) ==
    LET ids == PluginSeqIds(ps)
        bad == {i \in 1 .. Len(ids) : TriggerHooksRaises(ids[i], hookRaises)}
        stop == IF bad = {} THEN Len(ids)
                ELSE CHOOSE i \in bad : \A j \in bad : i <= j
    IN  [to |-> SubSeq(ids, 1, stop), raised |-> bad # {}]

\* Framework._handle_error: the handler registered for error_type runs inside
\* try/except Exception, then the `error` event is emitted.
\* handlerRaises: the registered handler raises.
\* [steps: what ran, in order; to: the plugins the event reached;
\*  raised: an exception left _handle_error].
HandleError(handlers, ps, error_type, handlerRaises, hookRaises) ==
    LET ev == EmitEvent(ps, hookRaises)
        handled == IF error_type \in handlers THEN <<"error_handler">>
                   ELSE <<>>
    IN  [steps |-> handled \o <<"error_event">>, to |-> ev.to,
         raised |-> ev.raised]

\* ------------------------------------------------------------ registry

\* The capability index after `for capability_name in plugin.capabilities:
\* ... append(plugin.plugin_id)`.
IndexCapabilities(gc, inst) ==
    [c \in DOMAIN gc \cup inst.capabilities |->
        IF c \in inst.capabilities
        THEN Append(IF c \in DOMAIN gc THEN gc[c] ELSE <<>>, inst.plugin_id)
        ELSE gc[c]]

\* Framework.register_plugin on F = [plugins, global_capabilities].
RegisterPlugin(F, inst) ==
    IF IsRegistered(F.plugins, inst.plugin_id)
    THEN [raised |-> TRUE, F |-> F]
    ELSE [raised |-> FALSE,
          F |-> [plugins |-> Append(F.plugins, inst),
                 global_capabilities |->
                     IndexCapabilities(F.global_capabilities, inst)]]

\* unload_plugin's loop without lines 197-198 (`if not ...: del ...`): the id
\* is removed from each list, and a list left empty stays in the index.
UnindexKeepingEmptyLists(gc, inst) ==
    [c \in DOMAIN gc |->
        IF c \in inst.capabilities THEN ListRemove(gc[c], inst.plugin_id)
        ELSE gc[c]]

\* The capability index after unload_plugin's loop over plugin.capabilities:
\* the id is removed from each list and a list left empty is deleted.
UnindexCapabilities(gc, inst) ==
    LET touched(c) == c \in inst.capabilities /\ c \in DOMAIN gc
        newlist(c) == IF touched(c) THEN ListRemove(gc[c], inst.plugin_id)
                      ELSE gc[c]
    IN  [c \in {d \in DOMAIN gc : ~touched(d) \/ newlist(d) # <<>>} |->
            newlist(c)]

\* Framework.unload_plugin on F.  cleanupRaises: plugin.cleanup() raises.
\* [ret, F, cleaned: cleanup() was called, emitted: plugin_unloaded went out].
UnloadPlugin(F, pid, cleanupRaises, hookRaises) ==
    LET removed(G) ==
            [ret |-> ~EmitEvent(G.plugins, hookRaises).raised, F |-> G,
             cleaned |-> TRUE, emitted |-> TRUE]
        remove(inst) ==
            removed([plugins |-> DictDelete(F.plugins, pid),
                     global_capabilities |->
                         UnindexCapabilities(F.global_capabilities, inst)])
    IN  IF ~IsRegistered(F.plugins, pid)
        THEN [ret |-> FALSE, F |-> F, cleaned |-> FALSE, emitted |-> FALSE]
        ELSE IF cleanupRaises
        THEN [ret |-> FALSE, F |-> F, cleaned |-> TRUE, emitted |-> FALSE]
        ELSE remove(PluginOf(F.plugins, pid))

\* Framework._validate_plugin.  vouts[i] is what validator i does with this
\* plugin: "true", "false" or "raise".
ValidatePlugin(inst, vouts) ==
    /\ inst.plugin_id # NoPlugin
    /\ inst.capabilities # {}
    /\ \A i \in 1 .. Len(vouts) : vouts[i] = "true"

\* _resolve_dependencies without its loop (lines 386-389): every declared
\* dependency is taken to be there.
ResolveDependenciesUnchecked(ps, deps) == TRUE

\* Framework._resolve_dependencies.  deps is the instance's `dependencies`.
ResolveDependencies(ps, deps) ==
    \A d \in deps : IsRegistered(ps, d)

\* load_plugin from the return of `await plugin.initialize()` on (lines
\* 163-180), G being the framework with the instance registered.  init is
\* what plugin.initialize() does: "true", "false" or "raise".
\* [ret, F, registered: register_plugin added it, announced: plugin_loaded
\*  went out, handled: the plugin_load_error handler ran, unloaded:
\*  plugin_unloaded went out].
LoadAfterInitialize(G, handlers, inst, init, cleanupRaises, hookRaises) ==
    LET caught ==
            [ret |-> FALSE, F |-> G, registered |-> TRUE,
             announced |-> FALSE,
             handled |-> HandleError(handlers, G.plugins, "plugin_load_error",
                                     FALSE, hookRaises).steps
                             # <<"error_event">>,
             unloaded |-> FALSE]
        undone(u) ==
            [ret |-> FALSE, F |-> u.F, registered |-> TRUE,
             announced |-> FALSE, handled |-> FALSE, unloaded |-> u.emitted]
    IN  IF init = "raise" THEN caught
        ELSE IF init = "true"
        THEN IF EmitEvent(G.plugins, hookRaises).raised
             THEN caught
             ELSE [ret |-> TRUE, F |-> G, registered |-> TRUE,
                   announced |-> TRUE, handled |-> FALSE,
                   unloaded |-> FALSE]
        ELSE undone(UnloadPlugin(G, inst.plugin_id, cleanupRaises,
                                 hookRaises))

\* Framework.load_plugin on F.
LoadPlugin(F, handlers, inst, deps, vouts, init, cleanupRaises, hookRaises) ==
    LET fail(h) ==
            [ret |-> FALSE, F |-> F, registered |-> FALSE,
             announced |-> FALSE, handled |-> h, unloaded |-> FALSE]
        register(reg) ==
            IF reg.raised
            THEN fail(HandleError(handlers, F.plugins, "plugin_load_error",
                                  FALSE, hookRaises).steps
                          # <<"error_event">>)
            ELSE LoadAfterInitialize(reg.F, handlers, inst, init,
                                     cleanupRaises, hookRaises)
    IN  IF ~ValidatePlugin(inst, vouts) THEN fail(FALSE)
        ELSE IF ~ResolveDependencies(F.plugins, deps) THEN fail(FALSE)
        ELSE register(RegisterPlugin(F, inst))

\* Framework.stop's loop: unload_plugin on every plugin of the snapshot
\* list(self.plugins.values()), in order; cleanupFails holds the ids whose
\* cleanup() raises.
RECURSIVE StopLoop(_, _, _, _)
StopLoop(F, snapshot, cleanupFails, hookRaises) ==
    IF snapshot = <<>> THEN F
    ELSE StopLoop(UnloadPlugin(F, Head(snapshot), Head(snapshot) \in cleanupFails,
                               hookRaises).F,
                  Tail(snapshot), cleanupFails, hookRaises)

\* The plugin_unloaded events that go out during stop's loop, in order.
RECURSIVE StopEvents(_, _, _, _)
StopEvents(F, snapshot, cleanupFails, hookRaises) ==
    IF snapshot = <<>> THEN <<>>
    ELSE LET then(u) ==
                 (IF u.emitted
                  THEN <<[name |-> "plugin_unloaded", pid |-> Head(snapshot)]>>
                  ELSE <<>>)
                 \o StopEvents(u.F, Tail(snapshot), cleanupFails, hookRaises)
         IN  then(UnloadPlugin(F, Head(snapshot),
                               Head(snapshot) \in cleanupFails, hookRaises))

\* Framework.discover_capability_providers: [] for an unknown name; otherwise
\* it reads self.plugins[plugin_id].capabilities[name] for every listed id,
\* which raises KeyError for an id that is not registered or has no such
\* capability.
DiscoverProviders(F, c) ==
    IF c \notin DOMAIN F.global_capabilities
    THEN [raised |-> FALSE, ids |-> <<>>]
    ELSE LET ids == F.global_capabilities[c]
             good(pid) == /\ IsRegistered(F.plugins, pid)
                          /\ c \in PluginOf(F.plugins, pid).capabilities
         IN  IF \A i \in 1 .. Len(ids) : good(ids[i])
             THEN [raised |-> FALSE, ids |-> ids]
             ELSE [raised |-> TRUE, ids |-> <<>>]

\* ------------------------------------------------------ call_capability

\* Framework._generate_cache_key: the md5 of
\* f"{capability}:{plugin_id}:{str(args)}:{str(sorted(kwargs.items()))}", one
\* key per (capability, plugin_id, args); plugin_id None is NoPlugin.
GenerateCacheKey(c, args, pid) == <<c, pid, args>>

\* `cache_key in self.capability_cache`
CacheHas(cache, key) == \E i \in 1 .. Len(cache) : cache[i].key = key

\* `self.capability_cache[cache_key]`
CacheGet(cache, key) ==
    cache[CHOOSE i \in 1 .. Len(cache) : cache[i].key = key].value

\* `self.capability_cache[cache_key] = result`: a known key keeps its place.
CachePut(cache, key, value) ==
    IF CacheHas(cache, key)
    THEN [i \in 1 .. Len(cache) |->
             IF cache[i].key = key THEN [key |-> key, value |-> value]
             ELSE cache[i]]
    ELSE Append(cache, [key |-> key, value |-> value])

\* A cleanup that drops the newest entries instead of the oldest.
CleanupCacheNewest(cache) ==
    IF Len(cache) > CacheCapacity
    THEN SubSeq(cache, 1, Len(cache) - CacheEvictBatch)
    ELSE cache

\* Framework._cleanup_cache
CleanupCache(cache) ==
    IF Len(cache) > CacheCapacity
    THEN SubSeq(cache, CacheEvictBatch + 1, Len(cache))
    ELSE cache

\* Framework._should_cache
ShouldCache(c, result) == result.val # LargeResult

\* metrics.get(f"plugin_calls_{pid}", 0): no code writes a plugin_calls_ key.
PluginUsage(m, pid) == 0

\* Framework._select_best_plugin: min() over the usage items keeps the first
\* of the least used, in the order of the provider list.
SelectBestPlugin(m, available) ==
    available[CHOOSE i \in 1 .. Len(available) :
                 /\ \A j \in 1 .. Len(available) :
                        PluginUsage(m, available[i]) <= PluginUsage(m, available[j])
                 /\ \A j \in 1 .. i - 1 :
                        PluginUsage(m, available[j]) > PluginUsage(m, available[i])]

\* The middleware a caller may register: "next" rewrites the argument to the
\* next one, "first" rewrites it to the first one, "raise" raises.
Middlewares == {"next", "first", "raise"}

\* One middleware, as the caller wrote it.  Framework._apply_middleware calls
\* it.
ApplyMiddleware(mw, args) ==
    IF mw = "raise" THEN [raised |-> TRUE, args |-> args]
    ELSE IF mw = "first" THEN [raised |-> FALSE, args |-> 1]
    ELSE [raised |-> FALSE, args |-> (args % MaxArgs) + 1]

\* The middleware loop run from the last registered middleware to the first.
RECURSIVE ApplyMiddlewareStackReversed(_, _)
ApplyMiddlewareStackReversed(stack, args) ==
    LET called == [mw |-> stack[Len(stack)], args |-> args]
        cons(r) == [r EXCEPT !.seen = <<called>> \o @]
        rest(r) ==
            IF r.raised
            THEN [raised |-> TRUE, args |-> args, seen |-> <<called>>]
            ELSE cons(ApplyMiddlewareStackReversed(
                          SubSeq(stack, 1, Len(stack) - 1), r.args))
    IN  IF stack = <<>>
        THEN [raised |-> FALSE, args |-> args, seen |-> <<>>]
        ELSE rest(ApplyMiddleware(stack[Len(stack)], args))

\* `for middleware in self.middleware_stack: args, kwargs = await ...`
\* [raised, args: the arguments after the loop, seen: the middleware called
\*  and the arguments each was given, in the order of the calls].
RECURSIVE ApplyMiddlewareStack(_, _)
ApplyMiddlewareStack(stack, args) ==
    LET called == [mw |-> Head(stack), args |-> args]
        cons(r) == [r EXCEPT !.seen = <<called>> \o @]
        rest(r) ==
            IF r.raised
            THEN [raised |-> TRUE, args |-> args, seen |-> <<called>>]
            ELSE cons(ApplyMiddlewareStack(Tail(stack), r.args))
    IN  IF stack = <<>>
        THEN [raised |-> FALSE, args |-> args, seen |-> <<>>]
        ELSE rest(ApplyMiddleware(Head(stack), args))

NoResult == [by |-> NoPlugin, val |-> LargeResult]

\* What a capability handler does when it is called: it raises, or returns val.
Outcomes ==
    {[raises |-> TRUE, val |-> LargeResult]} \cup
    {[raises |-> FALSE, val |-> v] : v \in Vals}

\* Plugin.execute_capability.  outcome is what the handler does when called.
\* A result carries the plugin whose handler returned it.
ExecuteCapability(inst, c, outcome) ==
    IF c \notin inst.capabilities
    THEN [raised |-> "CapabilityNotFound", invoked |-> FALSE, result |-> NoResult]
    ELSE IF outcome.raises
    THEN [raised |-> "HandlerError", invoked |-> TRUE, result |-> NoResult]
    ELSE [raised |-> "none", invoked |-> TRUE,
          result |-> [by |-> inst.plugin_id, val |-> outcome.val]]

\* The try block of call_capability (lines 223-254) on
\* S = [plugins, global_capabilities, middleware_stack, capability_cache, metrics].
\* [raised: the exception or "none", target: the plugin dispatched to,
\*  invoked, result, cache: the cache afterwards, seen: the middleware called
\*  with the arguments each was given, passed: the arguments the handler was
\*  called with].
TryCall(S, c, args, pid, use_cache, outcome) ==
    LET err(e, t) == [raised |-> e, target |-> t, invoked |-> FALSE,
                      result |-> NoResult, cache |-> S.capability_cache,
                      seen |-> <<>>, passed |-> 0]
        executed(target, mw, key, ex) ==
            [raised |-> ex.raised, target |-> target, invoked |-> ex.invoked,
             result |-> ex.result, seen |-> mw.seen,
             passed |-> IF ex.invoked THEN mw.args ELSE 0,
             cache |-> IF /\ ex.raised = "none"
                          /\ use_cache
                          /\ ShouldCache(c, ex.result)
                       THEN CleanupCache(CachePut(S.capability_cache, key,
                                                  ex.result))
                       ELSE S.capability_cache]
        dispatch(target, mw) ==
            IF ~IsRegistered(S.plugins, target) THEN err("KeyError", target)
            ELSE IF mw.raised
            THEN [err("MiddlewareError", target) EXCEPT !.seen = mw.seen]
            ELSE executed(target, mw, GenerateCacheKey(c, mw.args, pid),
                          ExecuteCapability(PluginOf(S.plugins, target), c,
                                            outcome))
        select(available) ==
            IF pid # NoPlugin /\ pid \notin Range(available)
            THEN err("NotProvider", NoPlugin)
            ELSE IF pid = NoPlugin /\ available = <<>>
            THEN err("ValueError", NoPlugin)
            ELSE dispatch(IF pid # NoPlugin THEN pid
                          ELSE SelectBestPlugin(S.metrics, available),
                          ApplyMiddlewareStack(S.middleware_stack, args))
    IN  IF c \notin DOMAIN S.global_capabilities
        THEN err("CapabilityNotAvailable", NoPlugin)
        ELSE select(S.global_capabilities[c])

\* Framework.call_capability on S, with the error handlers.
\* [S: the cache and metrics afterwards; raised: the exception the caller
\*  gets, or "none"; cause: the exception of the try block; result; hit: served
\*  from the cache; target; invoked: the handler ran; steps: what the except
\*  block did, in order; to: the plugins the error event reached; seen and
\*  passed: as in the try block].
CallCapability(S, handlers, c, args, pid, use_cache, outcome, handlerRaises, hookRaises) ==
    LET m1 == [S.metrics EXCEPT !.calls = @ + 1]
        key == GenerateCacheKey(c, args, pid)
        returned(t) ==
            [S |-> [S EXCEPT !.metrics = m1, !.capability_cache = t.cache],
             raised |-> "none", cause |-> "none", result |-> t.result,
             hit |-> FALSE, target |-> t.target, invoked |-> t.invoked,
             steps |-> <<>>, to |-> <<>>, seen |-> t.seen,
             passed |-> t.passed]
        except(t, he) ==
            [S |-> [S EXCEPT !.metrics = [m1 EXCEPT !.errors = @ + 1]],
             raised |-> IF he.raised THEN "HandleErrorRaised" ELSE t.raised,
             cause |-> t.raised, result |-> NoResult, hit |-> FALSE,
             target |-> t.target, invoked |-> t.invoked,
             steps |-> <<"errors_incremented">> \o he.steps
                       \o (IF he.raised THEN <<>> ELSE <<"reraise">>),
             to |-> he.to, seen |-> t.seen, passed |-> t.passed]
        try(t) ==
            IF t.raised = "none" THEN returned(t)
            ELSE except(t, HandleError(handlers, S.plugins,
                                       "capability_call_error", handlerRaises,
                                       hookRaises))
    IN  IF use_cache /\ CacheHas(S.capability_cache, key)
        THEN [S |-> [S EXCEPT !.metrics = [m1 EXCEPT !.cache_hits = @ + 1]],
              raised |-> "none", cause |-> "none",
              result |-> CacheGet(S.capability_cache, key), hit |-> TRUE,
              target |-> NoPlugin, invoked |-> FALSE, steps |-> <<>>,
              to |-> <<>>, seen |-> <<>>, passed |-> 0]
        ELSE try(TryCall([S EXCEPT !.metrics = m1], c, args, pid, use_cache,
                         outcome))

\* --------------------------------------------------------- call_multiple

\* A turn of call_multiple's loop that records every call as a success,
\* whatever call_capability raised.
CallMultipleStepAllSuccess(S, handlers, c, args, pid, outcome, handlerRaises, hookRaises) ==
    LET entry(r) ==
            [S |-> r.S,
             entry |-> [plugin_id |-> pid, success |-> TRUE,
                        result |-> r.result, error |-> r.raised],
             invoked |-> r.invoked]
    IN  entry(CallCapability(S, handlers, c, args, pid, TRUE, outcome,
                             handlerRaises, hookRaises))

\* One turn of call_multiple's loop: call_capability(name, *args,
\* plugin_id=plugin_id) inside try/except Exception, and the entry appended.
\* [S, entry, invoked: the handler ran].
CallMultipleStep(S, handlers, c, args, pid, outcome, handlerRaises, hookRaises) ==
    LET entry(r) ==
            [S |-> r.S,
             entry |-> [plugin_id |-> pid, success |-> r.raised = "none",
                        result |-> r.result, error |-> r.raised],
             invoked |-> r.invoked]
    IN  entry(CallCapability(S, handlers, c, args, pid, TRUE, outcome,
                             handlerRaises, hookRaises))

\* call_multiple's loop over the provider list, when nothing changes the list
\* while it runs.  outcomes[pid] is what pid's handler does; acc holds the
\* entries appended so far and the plugins whose handler ran.
\* [S, results, invoked: the plugins whose handler ran, in order].
RECURSIVE CallMultipleLoop(_, _, _, _, _, _, _, _, _)
CallMultipleLoop(S, handlers, c, args, providers, outcomes, handlerRaises, hookRaises, acc) ==
    LET next(pid, st) ==
            CallMultipleLoop(st.S, handlers, c, args, Tail(providers),
                             outcomes, handlerRaises, hookRaises,
                             [results |-> Append(acc.results, st.entry),
                              invoked |-> IF st.invoked
                                          THEN Append(acc.invoked, pid)
                                          ELSE acc.invoked])
    IN  IF providers = <<>>
        THEN [S |-> S, results |-> acc.results, invoked |-> acc.invoked]
        ELSE next(Head(providers),
                  CallMultipleStep(S, handlers, c, args, Head(providers),
                                   outcomes[Head(providers)], handlerRaises,
                                   hookRaises))

\* Framework.call_multiple, run without interruption.
CallMultiple(S, handlers, c, args, outcomes, handlerRaises, hookRaises) ==
    IF c \notin DOMAIN S.global_capabilities
    THEN [S |-> S, results |-> <<>>, invoked |-> <<>>]
    ELSE CallMultipleLoop(S, handlers, c, args, S.global_capabilities[c],
                          outcomes, handlerRaises, hookRaises,
                          [results |-> <<>>, invoked |-> <<>>])

\* ------------------------------------------------------------ hook lists

Events == 1 .. MaxEvents

\* What a hook function does when it is called: it returns, or it raises an
\* Exception.
HookKinds == {"returns", "raises"}

\* The number of hooks held by all plugin objects.
RECURSIVE SumLens(_, _)
SumLens(hk, evs) ==
    IF evs = {} THEN 0
    ELSE LET e == CHOOSE x \in evs : TRUE
         IN  Len(hk[e]) + SumLens(hk, evs \ {e})

RECURSIVE HookCountOver(_, _)
HookCountOver(h, pids) ==
    IF pids = {} THEN 0
    ELSE LET p == CHOOSE x \in pids : TRUE
         IN  SumLens(h[p], DOMAIN h[p]) + HookCountOver(h, pids \ {p})

HookCount(h) == HookCountOver(h, DOMAIN h)

\* Plugin.hook(event_name)'s decorator: the event's list is created if
\* missing, and the function is appended to it.
AddHook(hk, ev, kind) ==
    [e \in DOMAIN hk \cup {ev} |->
        IF e = ev
        THEN Append(IF ev \in DOMAIN hk THEN hk[ev] ELSE <<>>, kind)
        ELSE hk[e]]

\* trigger_hooks without the try/except of lines 70-77: the first hook that
\* raises ends the loop and the error leaves trigger_hooks.
TriggerHooksUncaught(hk, pid, ev) ==
    IF ev \notin DOMAIN hk THEN [raised |-> FALSE, calls |-> <<>>]
    ELSE LET bad == {i \in 1 .. Len(hk[ev]) : hk[ev][i] = "raises"}
             n == IF bad = {} THEN Len(hk[ev])
                  ELSE CHOOSE i \in bad : \A j \in bad : i <= j
         IN  [raised |-> bad # {},
              calls |-> [i \in 1 .. n |-> [pid |-> pid, event |-> ev, hook |-> i]]]

\* The for loop of trigger_hooks from the i-th hook of the list on: the hook
\* is called, an Exception it raises is caught and logged, and the loop goes
\* on.  calls lists the hooks called, each as plugin, event and position.
RECURSIVE TriggerHooksLoop(_, _, _, _)
TriggerHooksLoop(list, pid, ev, i) ==
    IF i > Len(list) THEN <<>>
    ELSE <<[pid |-> pid, event |-> ev, hook |-> i]>>
             \o TriggerHooksLoop(list, pid, ev, i + 1)

\* Plugin.trigger_hooks(event_name, data) on the plugin whose hooks are hk.
TriggerHooks(hk, pid, ev) ==
    IF ev \in DOMAIN hk
    THEN [raised |-> FALSE, calls |-> TriggerHooksLoop(hk[ev], pid, ev, 1)]
    ELSE [raised |-> FALSE, calls |-> <<>>]

\* Framework.emit_event from the i-th registered plugin on: trigger_hooks of
\* each plugin in turn; an error leaving one would leave emit_event.
RECURSIVE EmitEventLoop(_, _, _, _)
EmitEventLoop(ps, h, ev, i) ==
    IF i > Len(ps) THEN [raised |-> FALSE, calls |-> <<>>]
    ELSE LET then(r, rest) == [raised |-> rest.raised,
                               calls |-> r.calls \o rest.calls]
             step(r) == IF r.raised THEN r
                        ELSE then(r, EmitEventLoop(ps, h, ev, i + 1))
         IN  step(TriggerHooks(h[ps[i].plugin_id], ps[i].plugin_id, ev))

\* ------------------------------------------------------------ pipelines

NodeIds == 1 .. MaxNodes

\* An id that uuid4() never returned.
UnknownId == 0

\* PipelineNode.__init__: a node bound to a plugin id, with no connections.
PipelineNode(node_id, plugin_id) ==
    [node_id |-> node_id, plugin_id |-> plugin_id, connections |-> <<>>]

\* PipelineNode.add_connection: the target is appended unless already there.
AddConnection(node, target_node_id) ==
    IF target_node_id \in Range(node.connections) THEN node
    ELSE [node EXCEPT !.connections = Append(@, target_node_id)]

\* `node_id in self.nodes`; nodes is the dict as the sequence of its values.
HasNode(p, node_id) == \E i \in 1 .. Len(p.nodes) : p.nodes[i].node_id = node_id

\* self.nodes[node_id]
NodeOf(p, node_id) ==
    p.nodes[CHOOSE i \in 1 .. Len(p.nodes) : p.nodes[i].node_id = node_id]

\* list(self.nodes): the node ids in insertion order.
NodeIdsOf(p) == [i \in 1 .. Len(p.nodes) |-> p.nodes[i].node_id]

\* Pipeline.add_node: a fresh node is stored under node_id; an existing key
\* keeps its place in the dict and gets the fresh node as its value.
AddNode(p, node_id, plugin_id) ==
    [p EXCEPT !.nodes =
        IF HasNode(p, node_id)
        THEN [i \in 1 .. Len(p.nodes) |->
                 IF p.nodes[i].node_id = node_id
                 THEN PipelineNode(node_id, plugin_id)
                 ELSE p.nodes[i]]
        ELSE Append(p.nodes, PipelineNode(node_id, plugin_id))]

\* Pipeline.connect_nodes: nothing happens unless the source is a node.
ConnectNodes(p, source_node_id, target_node_id) ==
    [p EXCEPT !.nodes =
        [i \in 1 .. Len(p.nodes) |->
            IF p.nodes[i].node_id = source_node_id
            THEN AddConnection(p.nodes[i], target_node_id)
            ELSE p.nodes[i]]]

\* dfs(node_id) of get_execution_order, and its loop over the connections
\* from the i-th on.  result is the list so far; visited holds the same ids.
RECURSIVE Dfs(_, _, _)
RECURSIVE DfsConnections(_, _, _, _)
Dfs(p, node_id, result) ==
    IF node_id \in Range(result) \/ ~HasNode(p, node_id) THEN result
    ELSE DfsConnections(p, NodeOf(p, node_id).connections, 1,
                        Append(result, node_id))

DfsConnections(p, connections, i, result) ==
    IF i > Len(connections) THEN result
    ELSE DfsConnections(p, connections, i + 1, Dfs(p, connections[i], result))

\* The loop of lines 68-70 over the ids of starts from the i-th on.
RECURSIVE DfsFrom(_, _, _, _)
DfsFrom(p, starts, i, result) ==
    IF i > Len(starts) THEN result
    ELSE DfsFrom(p, starts, i + 1,
                 IF starts[i] \in Range(result) THEN result
                 ELSE Dfs(p, starts[i], result))

\* get_execution_order starting, as the comment of line 67 has it, only from
\* the nodes with no incoming connection.
GetExecutionOrderFromRoots(p) ==
    DfsFrom(p, SelectSeq(NodeIdsOf(p),
                         LAMBDA n : \A i \in 1 .. Len(p.nodes) :
                                        n \notin Range(p.nodes[i].connections)),
            1, <<>>)

\* Pipeline.get_execution_order
GetExecutionOrder(p) ==
    DfsFrom(p, NodeIdsOf(p), 1, <<>>)

\* `pipeline_id in self.pipelines`
HasPipeline(pls, pipeline_id) ==
    \E i \in 1 .. Len(pls) : pls[i].pipeline_id = pipeline_id

\* self.pipelines[pipeline_id]
PipelineOf(pls, pipeline_id) ==
    pls[CHOOSE i \in 1 .. Len(pls) : pls[i].pipeline_id = pipeline_id]

\* The dict after a method changed the pipeline object stored under an id.
WithPipeline(pls, q) ==
    [i \in 1 .. Len(pls) |->
        IF pls[i].pipeline_id = q.pipeline_id THEN q ELSE pls[i]]

\* PipelineEngine.add_pipeline_node: what it returns and the pipelines after.
AddPipelineNode(pls, pipeline_id, node_id, plugin_id) ==
    IF ~HasPipeline(pls, pipeline_id) THEN [ret |-> FALSE, pipelines |-> pls]
    ELSE [ret |-> TRUE,
          pipelines |->
              WithPipeline(pls, AddNode(PipelineOf(pls, pipeline_id),
                                        node_id, plugin_id))]

\* PipelineEngine.connect_pipeline_nodes: what it returns and the pipelines
\* after.
ConnectPipelineNodes(pls, pipeline_id, source_node_id, target_node_id) ==
    IF ~HasPipeline(pls, pipeline_id) THEN [ret |-> FALSE, pipelines |-> pls]
    ELSE [ret |-> TRUE,
          pipelines |->
              WithPipeline(pls, ConnectNodes(PipelineOf(pls, pipeline_id),
                                             source_node_id, target_node_id))]

\* The number of connections held by the nodes of all pipelines.
RECURSIVE EdgeCountFrom(_, _)
EdgeCountFrom(nodes, i) ==
    IF i > Len(nodes) THEN 0
    ELSE Len(nodes[i].connections) + EdgeCountFrom(nodes, i + 1)

RECURSIVE EdgeCount(_, _)
EdgeCount(pls, i) ==
    IF i > Len(pls) THEN 0
    ELSE EdgeCountFrom(pls[i].nodes, 1) + EdgeCount(pls, i + 1)

\* ------------------------------------------------------------ executions

Keys == 1 .. MaxKeys

\* The value of every key of an input_data, and the values of node outputs.
InputValue == 0
OutVals == 1 .. MaxOut

\* The dicts over at most n of the keys with values in vals.
DictsOver(vals, n) ==
    UNION {[ks -> vals] : ks \in {x \in SUBSET Keys : Cardinality(x) <= n}}

InputDatas == UNION {[ks -> {InputValue}] : ks \in SUBSET (1 .. MaxInputKeys)}

\* What the call of one node's plugin does (_execute_node, lines 195-208):
\* it raises an Exception, or it returns a dict, or it returns something that
\* is not a dict (val is then unused), or, for a plugin object with neither
\* execute nor process, _execute_node returns the input_data it was given.
NodeOutcomes ==
    {[raises |-> TRUE, is_map |-> FALSE, echo |-> FALSE, val |-> <<>>],
     [raises |-> FALSE, is_map |-> FALSE, echo |-> FALSE, val |-> <<>>],
     [raises |-> FALSE, is_map |-> TRUE, echo |-> TRUE, val |-> <<>>]}
    \cup {[raises |-> FALSE, is_map |-> TRUE, echo |-> FALSE, val |-> d] :
              d \in DictsOver(OutVals, MaxOutputKeys)}

\* The outcome of a call that has not returned yet.
Pending == [raises |-> FALSE, is_map |-> FALSE, echo |-> FALSE, val |-> <<>>]

\* A merge in which a key already set keeps its value.
UpdateKeepingOld(d, o) ==
    [k \in DOMAIN d \cup DOMAIN o |-> IF k \in DOMAIN d THEN d[k] ELSE o[k]]

\* dict.update: the keys of o are set in d.
Update(d, o) ==
    [k \in DOMAIN d \cup DOMAIN o |-> IF k \in DOMAIN o THEN o[k] ELSE d[k]]

\* A write of the fields that reaches every record, whatever its id.
SetExecutionOfAll(execs, execution_id, status, current_node, error) ==
    [i \in 1 .. Len(execs) |->
        [execs[i] EXCEPT !.status = status, !.current_node = current_node,
                         !.error = error]]

\* self.active_executions[execution_id][field] = value for the fields the
\* engine writes: status, current_node and error.
SetExecution(execs, execution_id, status, current_node, error) ==
    [i \in 1 .. Len(execs) |->
        IF execs[i].execution_id = execution_id
        THEN [execs[i] EXCEPT !.status = status,
                              !.current_node = current_node, !.error = error]
        ELSE execs[i]]

\* self.active_executions[execution_id]
ExecutionOf(execs, execution_id) ==
    execs[CHOOSE i \in 1 .. Len(execs) : execs[i].execution_id = execution_id]

\* The node_outputs dict with its entries as they are when the call returns:
\* the entry of a node whose output was the input_data object itself is the
\* current_data object, which later nodes' outputs were merged into.
ResolveOutputs(node_outputs, current_data) ==
    [i \in 1 .. Len(node_outputs) |->
        [node_id |-> node_outputs[i].node_id,
         is_map |-> node_outputs[i].is_map,
         val |-> IF node_outputs[i].echo THEN current_data
                 ELSE node_outputs[i].val]]

\* node_outputs[node_id] = node_output
SetOutput(node_outputs, node_id, outcome, current_data) ==
    IF \E i \in 1 .. Len(node_outputs) : node_outputs[i].node_id = node_id
    THEN [i \in 1 .. Len(node_outputs) |->
             IF node_outputs[i].node_id = node_id
             THEN [node_id |-> node_id, is_map |-> outcome.is_map,
                   echo |-> outcome.echo, val |-> outcome.val]
             ELSE node_outputs[i]]
    ELSE Append(node_outputs,
                [node_id |-> node_id, is_map |-> outcome.is_map,
                 echo |-> outcome.echo, val |-> outcome.val])

\* The except clause leaving the record as it is.
ExecutionFailedUnrecorded(execs, fr, error) ==
    [done |-> TRUE, raised |-> TRUE, error |-> error, execs |-> execs,
     frame |-> fr]

\* execute_pipeline's except clause (lines 142-146): the record is marked
\* failed with the error, and the error is raised to the caller.
ExecutionFailed(execs, fr, error) ==
    [done |-> TRUE, raised |-> TRUE, error |-> error,
     execs |-> SetExecution(execs, fr.execution_id, "failed",
                            ExecutionOf(execs, fr.execution_id).current_node,
                            error),
     frame |-> fr]

\* Lines 136-140: the loop is over, the record is marked completed and the
\* result is returned.
ExecutionCompleted(execs, fr) ==
    [done |-> TRUE, raised |-> FALSE, error |-> "none",
     execs |-> SetExecution(execs, fr.execution_id, "completed",
                            ExecutionOf(execs, fr.execution_id).current_node,
                            "none"),
     frame |-> fr]

\* The loop of _execute_pipeline_internal from the node at fr.pos up to the
\* await of that node's plugin (lines 160-172): the record's current_node is
\* set, the plugin is looked up, and a missing plugin raises; with no node
\* left the result is returned.  The trace lists the plugin calls made: the
\* node, the data it was handed, and what the call did.
RunToAwait(pls, registry, execs, fr) ==
    IF fr.pos > Len(fr.order) THEN ExecutionCompleted(execs, fr)
    ELSE LET node == NodeOf(PipelineOf(pls, fr.pipeline_id), fr.order[fr.pos])
             marked == SetExecution(execs, fr.execution_id, "running",
                                    node.node_id, "none")
         IN  IF node.plugin_id \notin registry
             THEN ExecutionFailed(marked, fr, "plugin_not_found")
             ELSE [done |-> FALSE, raised |-> FALSE, error |-> "none",
                   execs |-> marked,
                   frame |-> [fr EXCEPT !.trace =
                                 Append(@, [node_id |-> node.node_id,
                                            given |-> fr.current_data,
                                            outcome |-> Pending])]]

\* The frame after the awaited plugin call returned outcome (lines 173-181):
\* the output is stored under the node id and, if it is a dict, merged into
\* current_data.
StoreOutput(fr, outcome) ==
    [fr EXCEPT !.trace[Len(fr.trace)].outcome = outcome,
               !.node_outputs = SetOutput(@, fr.order[fr.pos], outcome,
                                          fr.current_data),
               !.current_data = IF outcome.is_map /\ ~outcome.echo
                                THEN Update(@, outcome.val) ELSE @,
               !.pos = @ + 1]

\* The loop going on after a plugin call that raised, as if the node had
\* returned something that is not a dict.
ResumeDespiteFailure(pls, registry, execs, fr, outcome) ==
    RunToAwait(pls, registry, execs,
               StoreOutput(fr, [outcome EXCEPT !.is_map =
                                   outcome.is_map /\ ~outcome.raises]))

\* The awaited plugin call of the node at fr.pos is over (lines 173-185): an
\* Exception it raised is raised again as RuntimeError; otherwise the output
\* is stored and the loop goes on to the next node's await.
Resume(pls, registry, execs, fr, outcome) ==
    IF outcome.raises
    THEN ExecutionFailed(execs,
                         [fr EXCEPT !.trace[Len(fr.trace)].outcome = outcome],
                         "node_failed")
    ELSE RunToAwait(pls, registry, execs, StoreOutput(fr, outcome))

\* execute_pipeline up to the first await (lines 117-134, 157-172) for a
\* pipeline that exists: the record is created with status running, and
\* _execute_pipeline_internal starts on a copy of input_data.
BeginExecution(pls, registry, execs, pipeline_id, execution_id, input_data) ==
    RunToAwait(pls, registry,
               Append(execs, [execution_id |-> execution_id,
                              pipeline_id |-> pipeline_id,
                              status |-> "running", current_node |-> 0,
                              error |-> "none"]),
               [execution_id |-> execution_id, pipeline_id |-> pipeline_id,
                order |-> GetExecutionOrder(PipelineOf(pls, pipeline_id)),
                pos |-> 1, input |-> input_data, current_data |-> input_data,
                node_outputs |-> <<>>, trace |-> <<>>])

\* ------------------------------------------------------------ loader

\* A file or directory name is one of the atoms 1 .. MaxAtoms, and a plugin
\* id is a string of atoms joined by "_": the string "a_b_c" is the number
\* with the decimal digits a, b, c.
Atoms == 1 .. MaxAtoms

RECURSIVE IdOfAtoms(_)
IdOfAtoms(atoms) ==
    IF atoms = <<>> THEN 0
    ELSE IdOfAtoms(SubSeq(atoms, 1, Len(atoms) - 1)) * 10
             + atoms[Len(atoms)]

\* Loader._generate_plugin_id.  A candidate is [is_file, parent, name]: the
\* file parent/name.py or the directory parent/name, parent being the names
\* of the directories from plugins_dir down (<<>> for plugins_dir itself,
\* which is named "plugins").  A file gets "dir_name", dir being the
\* directory it lies in, or "name" when it lies in plugins_dir; a directory
\* gets its relative path with the separators replaced by "_".
GeneratePluginId(c) ==
    IF c.is_file
    THEN IdOfAtoms((IF c.parent = <<>> THEN <<>>
                    ELSE <<c.parent[Len(c.parent)]>>) \o <<c.name>>)
    ELSE IdOfAtoms(c.parent \o <<c.name>>)

\* The candidates a plugins directory can hold, down to MaxDepth levels of
\* directories.
Candidates ==
    [is_file : BOOLEAN,
     parent : UNION {[1 .. n -> Atoms] : n \in 0 .. MaxDepth},
     name : Atoms]

\* The contents of a plugins directory, as rglob yields them: a directory
\* that holds a candidate file is a candidate itself (_is_plugin_candidate,
\* lines 60-72) and comes before it.
Listings ==
    {l \in UNION {[1 .. n -> Candidates] : n \in 0 .. MaxCandidates} :
        /\ \A i, j \in 1 .. Len(l) : i # j => l[i] # l[j]
        /\ \A j \in 1 .. Len(l) :
               (l[j].is_file /\ l[j].parent # <<>>) =>
                   \E i \in 1 .. j - 1 :
                       /\ ~l[i].is_file
                       /\ l[i].parent \o <<l[i].name>> = l[j].parent}

\* What _load_plugin_from_path and load_plugin do with one candidate: the
\* import fails; the module is imported and no plugin object comes out of it
\* (the constructor raises); or a plugin is constructed and its initialize()
\* returns true, returns false or raises.
ScanOutcomes ==
    {"import_error", "construct_error", "true", "false", "raise"}

\* results[key] = value
SetResult(results, key, value) ==
    [x \in DOMAIN results \cup {key} |->
        IF x = key THEN value ELSE results[x]]

\* One turn of discover_and_load_all's loop (lines 41-56) on
\* D = [F, modules, results, scan, kept].  scan records, per candidate, the
\* id derived and whether load_plugin returned true; kept holds the ids under
\* which an instance constructed by this scan is registered.
DiscoverStep(D, c, out) ==
    LET pid == GeneratePluginId(c)
        imported == IF out = "import_error" THEN D.modules
                    ELSE D.modules \cup {pid}
        loaded(r) ==
            [F |-> r.F, modules |-> imported,
             results |-> SetResult(D.results, pid, r.ret),
             scan |-> Append(D.scan, [pid |-> pid, loaded |-> r.ret]),
             kept |-> IF r.registered /\ IsRegistered(r.F.plugins, pid)
                      THEN D.kept \cup {pid} ELSE D.kept]
    IN  IF out \in {"import_error", "construct_error"}
        THEN [D EXCEPT !.modules = imported,
                       !.scan = Append(@, [pid |-> pid, loaded |-> FALSE])]
        ELSE loaded(LoadPlugin(D.F, {}, [plugin_id |-> pid,
                                         capabilities |-> {1}],
                               {}, <<>>, out, FALSE, FALSE))

\* Loader.discover_and_load_all over the first k candidates of dir, outs[i]
\* being what happens with candidate i.
RECURSIVE DiscoverAndLoadAll(_, _, _, _, _)
DiscoverAndLoadAll(F, modules, dir, outs, k) ==
    IF k = 0
    THEN [F |-> F, modules |-> modules, results |-> <<>>, scan |-> <<>>,
          kept |-> {}]
    ELSE DiscoverStep(DiscoverAndLoadAll(F, modules, dir, outs, k - 1),
                      dir[k], outs[k])

\* Loader.reload_plugin.  cleanupRaises: the old instance's cleanup() raises.
\* [ret, D: what the scan did, unloaded: unload_plugin returned true].
ReloadPlugin(F, modules, dir, plugin_id, cleanupRaises, outs) ==
    LET scanned(u, D) ==
            [ret |-> IF plugin_id \in DOMAIN D.results
                     THEN D.results[plugin_id] ELSE FALSE,
             D |-> D, unloaded |-> u.ret]
        rescan(u) ==
            scanned(u, DiscoverAndLoadAll(u.F, modules \ {plugin_id}, dir,
                                          outs, Len(dir)))
    IN  rescan(UnloadPlugin(F, plugin_id, cleanupRaises, FALSE))

\* ---------------------------------------------------- instance registry

\* PluginRegistry.create_plugin_instance on the type names and the instance
\* ids held.  ctorRaises: plugin_class(config) raises.
\* [created: an instance was returned, instances: the ids held afterwards].
CreatePluginInstance(types, instances, plugin_type, plugin_id, ctorRaises) ==
    IF plugin_type \notin types \/ ctorRaises
    THEN [created |-> FALSE, instances |-> instances]
    ELSE [created |-> TRUE, instances |-> instances \cup {plugin_id}]

\* PluginRegistry.remove_plugin_instance.
RemovePluginInstance(instances, plugin_id) ==
    [ret |-> plugin_id \in instances, instances |-> instances \ {plugin_id}]

\* PluginFramework.load_plugin.  init is what instance.initialize() does:
\* "true", "false" or "raise".
PluginFrameworkLoad(types, instances, plugin_type, plugin_id, ctorRaises, init) ==
    LET c == CreatePluginInstance(types, instances, plugin_type, plugin_id,
                                  ctorRaises)
    IN  IF ~c.created THEN [ret |-> FALSE, instances |-> c.instances]
        ELSE IF init = "raise" THEN [ret |-> FALSE, instances |-> c.instances]
        ELSE IF init = "true" THEN [ret |-> TRUE, instances |-> c.instances]
        ELSE [ret |-> FALSE,
              instances |-> RemovePluginInstance(c.instances,
                                                 plugin_id).instances]

\* PluginFramework.unload_plugin.  cleanupRaises: instance.cleanup() raises.
PluginFrameworkUnload(instances, plugin_id, cleanupRaises) ==
    IF plugin_id \in instances /\ cleanupRaises
    THEN [ret |-> FALSE, instances |-> instances]
    ELSE RemovePluginInstance(instances, plugin_id)

\* --------------------------------------------------------------- state

FW == [plugins |-> plugins, global_capabilities |-> global_capabilities]

SS == [plugins |-> plugins, global_capabilities |-> global_capabilities,
       middleware_stack |-> middleware_stack,
       capability_cache |-> capability_cache, metrics |-> metrics]

DefaultOutcome == [raises |-> FALSE, val |-> LargeResult]

\* No call_multiple is suspended.  Of a suspended one,
\* cap, args: the arguments of the call; idx: how many items the list
\* iterator has yielded; alive: the list it iterates is still the one in the
\* index; start: the provider list when the call started; results: the
\* entries appended so far; awaiting: the provider's call in progress reached
\* an await (it was not served from the cache).
CmIdle ==
    [active |-> FALSE, cap |-> 0, args |-> 0, idx |-> 0, alive |-> FALSE,
     start |-> <<>>, results |-> <<>>, awaiting |-> FALSE]

\* The shape of `last`: what the most recent operation was given and what it
\* returned.
\*   load, unload: pid; why (what makes the instance unfit to load: "no_id",
\*     "no_capabilities", "validator_false", "validator_raise",
\*     "missing_dependency", or "none"); init (what initialize() did);
\*     cleanupRaises; was_registered (pid was registered at the start); ret;
\*     pre_fw (load only: the plugin map and the index at the start).
\*   call, call_multiple: cap, args, pid, use_cache; outcomes (what each
\*     handler does when called); handlerRaises, hookRaises; raised (the
\*     exception the caller got), cause (the exception of the try block),
\*     result, hit, target, invoked (the plugins whose handler ran), steps and
\*     to (the except block); seen (the middleware called, each with the
\*     arguments it was given) and passed (the arguments the handler was
\*     called with); results and start (call_multiple's list, and
\*     the providers when it started); pre_cache and pre_metrics (the cache
\*     and the metrics when the call started).
LastNone ==
    [op |-> "none", pid |-> NoPlugin, why |-> "none", init |-> "none",
     cleanupRaises |-> FALSE, was_registered |-> FALSE, ret |-> FALSE,
     cap |-> 0, args |-> 0, use_cache |-> FALSE,
     outcomes |-> <<>>, handlerRaises |-> FALSE, hookRaises |-> FALSE,
     raised |-> "none", cause |-> "none", result |-> NoResult, hit |-> FALSE,
     target |-> NoPlugin, invoked |-> <<>>, steps |-> <<>>, to |-> <<>>,
     seen |-> <<>>, passed |-> 0, events |-> <<>>,
     scan |-> <<>>, kept |-> {},
     results |-> <<>>, start |-> <<>>,
     pre_fw |-> [plugins |-> <<>>, global_capabilities |-> <<>>],
     pre_cache |-> <<>>,
     pre_metrics |-> [calls |-> 0, errors |-> 0, cache_hits |-> 0]]

\* No hook operation yet.
HLastNone ==
    [op |-> "none", pid |-> NoPlugin, event |-> 0, raised |-> FALSE,
     calls |-> <<>>]

\* Plugin.__init__ (line 38): every plugin object starts with no hooks.
NoHooks == [pid \in PluginIds |-> <<>>]

HooksInit == hooks = NoHooks /\ hlast = HLastNone

\* No pipeline operation yet.  op is the operation; pipeline_id, node_id,
\* target and plugin_id what it was called with; ret what it returned; raised
\* whether it raised; order the list get_execution_order returned; pre the
\* pipelines when it was called; for execute_pipeline, execution_id and input
\* (the record's id and input_data), error (what was raised), trace (the
\* plugin calls made), and the node_outputs and final_output returned; for the
\* instance registry's operations, plugin_type, plugin_id, init (what
\* initialize() did), raised (the constructor or cleanup() raised), ret, and
\* pre_instances (the instance ids held when the call started).
PLastNone ==
    [op |-> "none", pipeline_id |-> UnknownId, node_id |-> 0, target |-> 0,
     plugin_id |-> NoPlugin, ret |-> FALSE, raised |-> FALSE, order |-> <<>>,
     pre |-> <<>>, execution_id |-> UnknownId, input |-> <<>>,
     error |-> "none", trace |-> <<>>, node_outputs |-> <<>>,
     final_output |-> <<>>, plugin_type |-> 0, init |-> "none",
     pre_instances |-> {}]

\* PipelineEngine.__init__ (lines 78-81) over an empty plugin registry.
EngineInit ==
    /\ pipelines = <<>>
    /\ active_executions = <<>>
    /\ plugin_instances = {}
    /\ uuids = 0
    /\ tasks = <<>>
    /\ plast = PLastNone

\* No event emitted yet, and no call suspended.
LifecycleInit == event_log = <<>> /\ suspended = <<>>

\* PluginRegistry.__init__ (lines 48-51): no plugin type yet.
RegistryInit == plugin_types = {}

\* Loader.__init__ (lines 25-28) over a plugins directory without candidates.
LoaderInit == plugins_dir = <<>> /\ loaded_modules = {}

\* Framework.__init__ (lines 102-116).
\* Framework.__init__ (lines 102-116).
CoreInit ==
    /\ LifecycleInit
    /\ RegistryInit
    /\ plugins = <<>>
    /\ global_capabilities = <<>>
    /\ validators = 0
    /\ error_handlers = {}
    /\ middleware_stack = <<>>
    /\ capability_cache = <<>>
    /\ metrics = [calls |-> 0, errors |-> 0, cache_hits |-> 0]
    /\ cm = CmIdle
    /\ dispatched = [pid \in PluginIds |-> 0]
    /\ last = LastNone

FrameworkInit == CoreInit /\ LoaderInit

Init == FrameworkInit /\ HooksInit /\ EngineInit

\* A run is followed until MaxCalls capability calls have been made.
Budget == metrics.calls < MaxCalls

\* Another task gets to run only while call_multiple is suspended at an await.
OtherTask == Budget /\ (cm.active => cm.awaiting)

\* The plugin map and the capability index after an operation.  The iterator
\* of a suspended call_multiple holds the list object it started on: once
\* unload_plugin has deleted that entry the iterator's list stays empty, even
\* if a later registration creates a new list under the same name.
SetFW(F) ==
    /\ plugins' = F.plugins
    /\ global_capabilities' = F.global_capabilities
    /\ cm' = [cm EXCEPT !.alive = @ /\ cm.cap \in DOMAIN F.global_capabilities]

\* What the validators called for one plugin do: _validate_plugin calls them
\* in order and stops at the first that returns false or raises.
ValidatorRuns(n) ==
    {[i \in 1 .. n |-> "true"]} \cup
    {[i \in 1 .. k |-> IF i < k THEN "true" ELSE bad] :
        k \in 1 .. n, bad \in {"false", "raise"}}

\* What makes an instance unfit to load, read off the instance and the
\* validators' outcomes, in the order load_plugin looks at them.
Unfit(inst, deps, vouts) ==
    IF inst.plugin_id = NoPlugin THEN "no_id"
    ELSE IF inst.capabilities = {} THEN "no_capabilities"
    ELSE IF \E i \in 1 .. Len(vouts) : vouts[i] = "false" THEN "validator_false"
    ELSE IF \E i \in 1 .. Len(vouts) : vouts[i] = "raise" THEN "validator_raise"
    ELSE IF \E d \in deps : ~IsRegistered(plugins, d) THEN "missing_dependency"
    ELSE "none"

\* ------------------------------------------------------------- actions

\* load_plugin with every outcome drawn.
LoadWith(inst, deps, vouts, init, cleanupRaises, hookRaises) ==
    \E r \in {LoadPlugin(FW, error_handlers, inst, deps, vouts, init,
                         cleanupRaises, hookRaises)} :
        /\ SetFW(r.F)
        /\ last' = [LastNone EXCEPT !.op = "load", !.pid = inst.plugin_id,
                       !.why = Unfit(inst, deps, vouts), !.init = init,
                       !.cleanupRaises = cleanupRaises,
                       !.was_registered =
                           IsRegistered(plugins, inst.plugin_id),
                       !.ret = r.ret, !.pre_fw = FW,
                       !.events =
                           IF r.announced
                           THEN <<[name |-> "plugin_loaded",
                                   pid |-> inst.plugin_id]>>
                           ELSE IF r.unloaded
                           THEN <<[name |-> "plugin_unloaded",
                                   pid |-> inst.plugin_id]>>
                           ELSE <<>>]
        /\ UNCHANGED <<rvars, hvars, pvars, suspended, validators, error_handlers, middleware_stack,
                       capability_cache, metrics, dispatched>>

\* load_plugin with the outcomes drawn that the code reaches: initialize()
\* runs once the instance is validated, its dependencies are resolved and
\* its id is new; cleanup() runs when initialize() returned false.
LoadReaching(inst, deps, vouts) ==
    IF ~ValidatePlugin(inst, vouts) \/ ~ResolveDependencies(plugins, deps)
    THEN LoadWith(inst, deps, vouts, "none", FALSE, FALSE)
    ELSE \E hookRaises \in BOOLEAN :
        IF IsRegistered(plugins, inst.plugin_id)
        THEN LoadWith(inst, deps, vouts, "none", FALSE, hookRaises)
        ELSE \/ \E init \in {"true", "raise"} :
                  LoadWith(inst, deps, vouts, init, FALSE, hookRaises)
             \/ \E cleanupRaises \in BOOLEAN :
                  LoadWith(inst, deps, vouts, "false", cleanupRaises,
                           hookRaises)

\* await framework.load_plugin(plugin).  The validators are not drawn for an
\* instance without id or capability: _validate_plugin returns before them.
LoadCall ==
    OtherTask /\
    \E pid \in {NoPlugin} \cup PluginIds, caps \in SUBSET Caps :
        \E inst \in {[plugin_id |-> pid, capabilities |-> caps]} :
            IF pid = NoPlugin \/ caps = {}
            THEN LoadReaching(inst, {}, <<>>)
            ELSE \E vouts \in ValidatorRuns(validators),
                    deps \in {{}} \cup {{d} : d \in PluginIds} :
                     LoadReaching(inst, deps, vouts)

\* The events of the operation are added to the history of events.
LogEvents == event_log' = event_log \o last'.events

\* load_plugin where the events emitted are not followed.
Load == LoadCall /\ UNCHANGED event_log

\* load_plugin where the events emitted are followed.
LoadLogged == Len(event_log) < MaxLog /\ LoadCall /\ LogEvents

\* await framework.unload_plugin(plugin_id)
UnloadCall ==
    OtherTask /\
    \E pid \in PluginIds, cleanupRaises \in BOOLEAN, hookRaises \in BOOLEAN :
        /\ ~IsRegistered(plugins, pid) => ~cleanupRaises /\ ~hookRaises
        /\ cleanupRaises => ~hookRaises
        /\ \E r \in {UnloadPlugin(FW, pid, cleanupRaises, hookRaises)} :
               /\ SetFW(r.F)
               /\ last' = [LastNone EXCEPT !.op = "unload", !.pid = pid,
                              !.cleanupRaises = cleanupRaises,
                              !.was_registered = IsRegistered(plugins, pid),
                              !.ret = r.ret,
                              !.events =
                                  IF r.emitted
                                  THEN <<[name |-> "plugin_unloaded",
                                          pid |-> pid]>>
                                  ELSE <<>>]
        /\ UNCHANGED <<rvars, hvars, pvars, suspended, validators, error_handlers, middleware_stack,
                       capability_cache, metrics, dispatched>>

\* unload_plugin where the events emitted are not followed.
Unload == UnloadCall /\ UNCHANGED event_log

\* unload_plugin where the events emitted are followed.
UnloadLogged == Len(event_log) < MaxLog /\ UnloadCall /\ LogEvents

\* await framework.stop()
StopCall ==
    OtherTask /\
    \E cleanupFails \in SUBSET Range(PluginSeqIds(plugins)),
       hookRaises \in BOOLEAN :
        /\ SetFW(StopLoop(FW, PluginSeqIds(plugins), cleanupFails, hookRaises))
        /\ last' = [LastNone EXCEPT !.op = "stop",
                       !.events = StopEvents(FW, PluginSeqIds(plugins),
                                             cleanupFails, hookRaises)]
        /\ UNCHANGED <<rvars, hvars, pvars, suspended, validators, error_handlers, middleware_stack,
                       capability_cache, metrics, dispatched>>

\* stop where the events emitted are not followed.
Stop == StopCall /\ UNCHANGED event_log

\* stop where the events emitted are followed.
StopLogged == Len(event_log) < MaxLog /\ StopCall /\ LogEvents

\* A task calls load_plugin(plugin) and is suspended at the await of
\* plugin.initialize() (line 163): the plugin passed validation and
\* dependency resolution and has been registered (line 162).
LoadSuspend ==
    /\ Len(suspended) < MaxSuspended
    /\ \E pid \in PluginIds, caps \in SUBSET Caps :
       \E inst \in {[plugin_id |-> pid, capabilities |-> caps]} :
        /\ ValidatePlugin(inst, <<>>)
        /\ ~IsRegistered(plugins, pid)
        /\ SetFW(RegisterPlugin(FW, inst).F)
        /\ suspended' = Append(suspended, [op |-> "load", inst |-> inst])
        /\ last' = [LastNone EXCEPT !.op = "load_await", !.pid = pid,
                        !.pre_fw = FW]
    /\ UNCHANGED <<rvars, hvars, pvars, event_log, validators, error_handlers,
                   middleware_stack, capability_cache, metrics, dispatched>>

\* plugin.initialize() is over, and the suspended load_plugin runs to its
\* end (lines 163-180).
LoadResume ==
    /\ \E k \in 1 .. Len(suspended) :
        /\ suspended[k].op = "load"
        /\ \E init \in {"true", "false", "raise"}, cleanupRaises \in BOOLEAN :
           \E r \in {LoadAfterInitialize(FW, error_handlers,
                                         suspended[k].inst, init,
                                         init = "false" /\ cleanupRaises,
                                         FALSE)} :
            /\ SetFW(r.F)
            /\ last' = [LastNone EXCEPT !.op = "load",
                            !.pid = suspended[k].inst.plugin_id,
                            !.init = init,
                            !.cleanupRaises = init = "false" /\ cleanupRaises,
                            !.ret = r.ret]
        /\ suspended' = [i \in 1 .. Len(suspended) - 1 |->
                             IF i < k THEN suspended[i] ELSE suspended[i + 1]]
    /\ UNCHANGED <<rvars, hvars, pvars, event_log, validators, error_handlers,
                   middleware_stack, capability_cache, metrics, dispatched>>

\* A task calls unload_plugin(plugin_id) on a registered plugin and is
\* suspended at the await of plugin.cleanup() (line 190).
UnloadSuspend ==
    /\ Len(suspended) < MaxSuspended
    /\ \E k \in 1 .. Len(plugins) :
        /\ suspended' = Append(suspended, [op |-> "unload", inst |-> plugins[k]])
        /\ last' = [LastNone EXCEPT !.op = "unload_await",
                        !.pid = plugins[k].plugin_id]
    /\ UNCHANGED <<rvars, hvars, pvars, event_log, plugins, global_capabilities,
                   validators, error_handlers, middleware_stack,
                   capability_cache, metrics, cm, dispatched>>

\* plugin.cleanup() is over, and the suspended unload_plugin runs to its end
\* (lines 190-208).
UnloadResume ==
    /\ \E k \in 1 .. Len(suspended) :
        /\ suspended[k].op = "unload"
        /\ \E cleanupRaises \in BOOLEAN :
           \E r \in {UnloadPlugin(FW, suspended[k].inst.plugin_id,
                                  cleanupRaises, FALSE)} :
            /\ SetFW(r.F)
            /\ last' = [LastNone EXCEPT !.op = "unload",
                            !.pid = suspended[k].inst.plugin_id,
                            !.cleanupRaises = cleanupRaises,
                            !.was_registered = TRUE, !.ret = r.ret]
        /\ suspended' = [i \in 1 .. Len(suspended) - 1 |->
                             IF i < k THEN suspended[i] ELSE suspended[i + 1]]
    /\ UNCHANGED <<rvars, hvars, pvars, event_log, validators, error_handlers,
                   middleware_stack, capability_cache, metrics, dispatched>>

\* framework.add_validator(validator)
AddValidator ==
    /\ validators < MaxValidators
    /\ validators' = validators + 1
    /\ last' = [LastNone EXCEPT !.op = "add_validator"]
    /\ UNCHANGED <<rvars, hvars, pvars, lvars, plugins, global_capabilities, error_handlers,
                   middleware_stack, capability_cache, metrics, cm, dispatched>>

\* framework.add_error_handler("capability_call_error", handler)
AddErrorHandler ==
    /\ Budget
    /\ "capability_call_error" \notin error_handlers
    /\ error_handlers' = error_handlers \cup {"capability_call_error"}
    /\ last' = [LastNone EXCEPT !.op = "add_error_handler"]
    /\ UNCHANGED <<rvars, hvars, pvars, lvars, plugins, global_capabilities, validators,
                   middleware_stack, capability_cache, metrics, cm, dispatched>>

\* framework.add_middleware(middleware)
AddMiddleware ==
    \E mw \in Middlewares :
        /\ Budget
        /\ Len(middleware_stack) < MaxMiddleware
        /\ middleware_stack' = Append(middleware_stack, mw)
        /\ last' = [LastNone EXCEPT !.op = "add_middleware"]
        /\ UNCHANGED <<rvars, hvars, pvars, lvars, plugins, global_capabilities, validators,
                       error_handlers, capability_cache, metrics, cm,
                       dispatched>>

\* call_capability with every outcome drawn.
CallWith(c, args, pid, use_cache, outcome, handlerRaises, hookRaises) ==
    \E r \in {CallCapability(SS, error_handlers, c, args, pid, use_cache,
                             outcome, handlerRaises, hookRaises)} :
        /\ capability_cache' = r.S.capability_cache
        /\ metrics' = r.S.metrics
        /\ dispatched' = IF r.invoked
                         THEN [dispatched EXCEPT ![r.target] = @ + 1]
                         ELSE dispatched
        /\ last' = [LastNone EXCEPT !.op = "call", !.cap = c,
                       !.args = args, !.pid = pid, !.use_cache = use_cache,
                       !.outcomes = <<outcome>>,
                       !.handlerRaises = handlerRaises,
                       !.hookRaises = hookRaises,
                       !.raised = r.raised, !.cause = r.cause,
                       !.result = r.result, !.hit = r.hit,
                       !.target = r.target,
                       !.invoked = IF r.invoked THEN <<r.target>> ELSE <<>>,
                       !.steps = r.steps, !.to = r.to,
                       !.seen = r.seen, !.passed = r.passed,
                       !.pre_cache = capability_cache,
                       !.pre_metrics = metrics]
        /\ UNCHANGED <<rvars, hvars, pvars, lvars, plugins, global_capabilities, validators,
                       error_handlers, middleware_stack, cm>>

\* What one call_capability draws: [outcome, handler, hook], what the
\* capability handler does, and whether the error handler and a hook raise.
\* The outcome of a call the code does not reach is not drawn: the handler's
\* when it is not invoked, the error handler's and the hooks' when nothing
\* raised, when no handler is registered or no plugin is there to hear of the
\* error.  r is the call evaluated with a handler that returns: it tells which
\* of them the call reaches.
Reached(r) ==
    {d \in [outcome : Outcomes, handler : BOOLEAN, hook : BOOLEAN] :
        /\ ~r.invoked => d.outcome = DefaultOutcome
        /\ d.handler => /\ r.cause # "none" \/ d.outcome.raises
                        /\ "capability_call_error" \in error_handlers
        /\ d.hook => /\ r.cause # "none" \/ d.outcome.raises
                     /\ plugins # <<>>}

CallDraws(c, args, pid, use_cache) ==
    Reached(CallCapability(SS, error_handlers, c, args, pid, use_cache,
                           DefaultOutcome, FALSE, FALSE))

\* await framework.call_capability(name, args, plugin_id=..., use_cache=...)
Call ==
    /\ Budget
    /\ \E c \in Caps, args \in Args, pid \in {NoPlugin} \cup PluginIds,
          use_cache \in BOOLEAN :
         \E d \in CallDraws(c, args, pid, use_cache) :
            CallWith(c, args, pid, use_cache, d.outcome, d.handler, d.hook)

\* The providers a call_multiple started now would go through.
ProvidersOf(c) ==
    IF c \in DOMAIN global_capabilities THEN global_capabilities[c] ELSE <<>>

\* await framework.call_multiple(name, args), run without interruption
CallAll ==
    /\ Budget
    /\ \E c \in Caps, args \in Args :
      \E outcomes \in [Range(ProvidersOf(c)) -> Outcomes],
         f \in [handler : BOOLEAN, hook : BOOLEAN] :
        \E r \in {CallMultiple(SS, error_handlers, c, args, outcomes,
                                f.handler, f.hook)} :
            /\ metrics.calls + Len(ProvidersOf(c)) <= MaxCalls
            /\ f.handler => "capability_call_error" \in error_handlers
            /\ (f.handler \/ f.hook) =>
                   \E i \in 1 .. Len(r.results) : ~r.results[i].success
            /\ \A p \in DOMAIN outcomes :
                   p \notin Range(r.invoked) => outcomes[p] = DefaultOutcome
            /\ capability_cache' = r.S.capability_cache
            /\ metrics' = r.S.metrics
            /\ dispatched' = [pid \in PluginIds |->
                                 IF pid \in Range(r.invoked)
                                 THEN dispatched[pid] + 1
                                 ELSE dispatched[pid]]
            /\ last' = [LastNone EXCEPT !.op = "call_multiple", !.cap = c,
                           !.args = args, !.use_cache = TRUE,
                           !.outcomes = outcomes,
                           !.handlerRaises = f.handler,
                           !.hookRaises = f.hook,
                           !.invoked = r.invoked, !.results = r.results,
                           !.start = ProvidersOf(c),
                           !.pre_cache = capability_cache,
                           !.pre_metrics = metrics]
            /\ UNCHANGED <<rvars, hvars, pvars, lvars, plugins, global_capabilities, validators,
                           error_handlers, middleware_stack, cm>>

\* call_multiple from the iterator state `it` up to its next await: the
\* `for` statement asks the list iterator for the next provider; with one, it
\* calls call_capability(name, args, plugin_id=provider) and appends the
\* entry; without, the loop ends and call_multiple returns its results.
CmRun(it) ==
    \E lst \in {IF it.alive THEN global_capabilities[it.cap] ELSE <<>>} :
      IF it.idx < Len(lst)
      THEN \E pid \in {lst[it.idx + 1]} :
           \E d \in CallDraws(it.cap, it.args, pid, TRUE) :
           \E st \in {CallMultipleStep(SS, error_handlers, it.cap, it.args,
                                       pid, d.outcome, d.handler, d.hook)} :
             /\ capability_cache' = st.S.capability_cache
             /\ metrics' = st.S.metrics
             /\ dispatched' = IF st.invoked
                              THEN [dispatched EXCEPT ![pid] = @ + 1]
                              ELSE dispatched
             /\ cm' = [it EXCEPT
                          !.active = TRUE, !.idx = @ + 1,
                          !.results = Append(@, st.entry),
                          !.awaiting =
                              ~CacheHas(capability_cache,
                                        GenerateCacheKey(it.cap, it.args, pid))]
             /\ last' = [LastNone EXCEPT !.op = "call_multiple_await",
                            !.cap = it.cap, !.args = it.args, !.pid = pid]
      ELSE /\ cm' = CmIdle
           /\ last' = [LastNone EXCEPT !.op = "call_multiple",
                          !.cap = it.cap, !.args = it.args,
                          !.use_cache = TRUE, !.results = it.results,
                          !.start = it.start]
           /\ UNCHANGED <<capability_cache, metrics, dispatched>>

\* A task calls framework.call_multiple(name, args): lines 267-268, or the
\* loop up to the first provider's await.
CmBegin ==
    /\ ~cm.active
    /\ Budget
    /\ \E c \in Caps, args \in Args :
         IF c \notin DOMAIN global_capabilities
         THEN /\ last' = [LastNone EXCEPT !.op = "call_multiple",
                             !.cap = c, !.args = args, !.use_cache = TRUE]
              /\ UNCHANGED <<capability_cache, metrics, dispatched, cm>>
         ELSE CmRun([CmIdle EXCEPT !.cap = c, !.args = args, !.alive = TRUE,
                                   !.start = global_capabilities[c]])
    /\ UNCHANGED <<rvars, hvars, pvars, lvars, plugins, global_capabilities, validators, error_handlers,
                   middleware_stack>>

\* The suspended call_multiple is resumed: the provider's call returns, and
\* the loop goes on to the next provider's await or to the end.
CmStep ==
    /\ cm.active
    /\ CmRun(cm)
    /\ UNCHANGED <<rvars, hvars, pvars, lvars, plugins, global_capabilities, validators, error_handlers,
                   middleware_stack>>

\* ------------------------------------------------------------ hooks

\* register_plugin(plugin) called directly with a plugin object: lines 134-147.
Register ==
    \E pid \in PluginIds, caps \in SUBSET Caps :
    \E r \in {RegisterPlugin(FW, [plugin_id |-> pid, capabilities |-> caps])} :
        /\ ~r.raised
        /\ SetFW(r.F)
        /\ hlast' = [HLastNone EXCEPT !.op = "register", !.pid = pid]
        /\ UNCHANGED <<validators, error_handlers, middleware_stack,
                       capability_cache, metrics, dispatched, last, hooks,
                   pvars, lvars, rvars>>

\* A plugin registers a hook with @plugin.hook(event): lines 50-57.
Hook ==
    /\ HookCount(hooks) < MaxHooks
    /\ \E pid \in PluginIds, ev \in Events, kind \in HookKinds :
        /\ hooks' = [hooks EXCEPT ![pid] = AddHook(@, ev, kind)]
        /\ hlast' = [HLastNone EXCEPT !.op = "hook", !.pid = pid, !.event = ev]
    /\ UNCHANGED <<plugins, global_capabilities, validators, error_handlers,
                   middleware_stack, capability_cache, metrics, cm,
                   dispatched, last,
                   pvars, lvars, rvars>>

\* plugin.trigger_hooks(event) on one plugin object: lines 67-77.
Trigger ==
    /\ \E pid \in PluginIds, ev \in Events :
       \E r \in {TriggerHooks(hooks[pid], pid, ev)} :
        hlast' = [op |-> "trigger_hooks", pid |-> pid, event |-> ev,
                  raised |-> r.raised, calls |-> r.calls]
    /\ UNCHANGED <<plugins, global_capabilities, validators, error_handlers,
                   middleware_stack, capability_cache, metrics, cm,
                   dispatched, last, hooks,
                   pvars, lvars, rvars>>

\* framework.emit_event(event): lines 280-283.
Emit ==
    /\ \E ev \in Events :
       \E r \in {EmitEventLoop(plugins, hooks, ev, 1)} :
        hlast' = [op |-> "emit_event", pid |-> NoPlugin, event |-> ev,
                  raised |-> r.raised, calls |-> r.calls]
    /\ UNCHANGED <<plugins, global_capabilities, validators, error_handlers,
                   middleware_stack, capability_cache, metrics, cm,
                   dispatched, last, hooks,
                   pvars, lvars, rvars>>

\* ------------------------------------------------------------ pipeline engine

\* engine.create_pipeline(): lines 83-90.
CreatePipeline ==
    /\ Len(pipelines) < MaxPipelines
    /\ uuids' = uuids + 1
    /\ pipelines' = Append(pipelines,
                           [pipeline_id |-> uuids + 1, nodes |-> <<>>])
    /\ plast' = [PLastNone EXCEPT !.op = "create_pipeline",
                     !.pipeline_id = uuids + 1, !.pre = pipelines]
    /\ UNCHANGED <<fvars, rvars, hvars, active_executions, plugin_instances, tasks>>

\* engine.add_pipeline_node(pipeline_id, node_id, plugin_id, config): lines
\* 92-103.
AddPipelineNodeCall ==
    /\ \E pipeline_id \in 0 .. uuids, node_id \in NodeIds,
          plugin_id \in PluginIds :
       \E r \in {AddPipelineNode(pipelines, pipeline_id, node_id, plugin_id)} :
        /\ pipelines' = r.pipelines
        /\ plast' = [PLastNone EXCEPT !.op = "add_pipeline_node",
                         !.pipeline_id = pipeline_id, !.node_id = node_id,
                         !.plugin_id = plugin_id, !.ret = r.ret,
                         !.pre = pipelines]
    /\ UNCHANGED <<fvars, rvars, hvars, active_executions, plugin_instances, uuids,
                   tasks>>

\* engine.connect_pipeline_nodes(pipeline_id, source, target): lines 105-115.
ConnectPipelineNodesCall ==
    /\ EdgeCount(pipelines, 1) < MaxEdges
    /\ \E pipeline_id \in 0 .. uuids, source \in NodeIds, target \in NodeIds :
       \E r \in {ConnectPipelineNodes(pipelines, pipeline_id, source, target)} :
        /\ pipelines' = r.pipelines
        /\ plast' = [PLastNone EXCEPT !.op = "connect_pipeline_nodes",
                         !.pipeline_id = pipeline_id, !.node_id = source,
                         !.target = target, !.ret = r.ret, !.pre = pipelines]
    /\ UNCHANGED <<fvars, rvars, hvars, active_executions, plugin_instances, uuids,
                   tasks>>

\* engine.get_pipeline(pipeline_id).get_execution_order(): lines 51-72.
GetExecutionOrderCall ==
    /\ \E i \in 1 .. Len(pipelines) :
        plast' = [PLastNone EXCEPT !.op = "get_execution_order",
                     !.pipeline_id = pipelines[i].pipeline_id,
                     !.order = GetExecutionOrder(pipelines[i]),
                     !.pre = pipelines]
    /\ UNCHANGED <<fvars, rvars, hvars, pipelines, active_executions,
                   plugin_instances, uuids, tasks>>

\* engine.list_active_executions(): the values of active_executions.
ListActiveExecutions == active_executions

\* An execute_pipeline call is over: what it returned or raised.
ExecutionEnds(r) ==
    /\ active_executions' = r.execs
    /\ plast' = [PLastNone EXCEPT
                    !.op = "execute_pipeline",
                    !.pipeline_id = r.frame.pipeline_id,
                    !.execution_id = r.frame.execution_id,
                    !.input = r.frame.input, !.order = r.frame.order,
                    !.raised = r.raised, !.ret = ~r.raised,
                    !.error = r.error, !.trace = r.frame.trace,
                    !.node_outputs =
                        IF r.raised THEN <<>>
                        ELSE ResolveOutputs(r.frame.node_outputs,
                                            r.frame.current_data),
                    !.final_output =
                        IF r.raised THEN <<>> ELSE r.frame.current_data,
                    !.pre = pipelines]

\* An execute_pipeline call is suspended at the await of a node's plugin.
ExecutionAwaits(r) ==
    /\ active_executions' = r.execs
    /\ plast' = [PLastNone EXCEPT
                    !.op = "execute_pipeline_await",
                    !.pipeline_id = r.frame.pipeline_id,
                    !.execution_id = r.frame.execution_id,
                    !.input = r.frame.input, !.order = r.frame.order,
                    !.trace = r.frame.trace, !.pre = pipelines]

\* A task calls engine.execute_pipeline(pipeline_id, input_data): it raises
\* for an unknown pipeline (lines 119-120), and otherwise runs up to the
\* first node's await, or to its end.
ExecuteCall ==
    /\ Len(active_executions) < MaxExecutions
    /\ \E pipeline_id \in 0 .. uuids, input_data \in InputDatas :
        IF ~HasPipeline(pipelines, pipeline_id)
        THEN /\ plast' = [PLastNone EXCEPT !.op = "execute_pipeline",
                             !.pipeline_id = pipeline_id,
                             !.input = input_data, !.raised = TRUE,
                             !.error = "pipeline_not_found",
                             !.pre = pipelines]
             /\ UNCHANGED <<active_executions, uuids, tasks>>
        ELSE \E r \in {BeginExecution(pipelines, plugin_instances,
                                      active_executions, pipeline_id,
                                      uuids + 1, input_data)} :
             /\ uuids' = uuids + 1
             /\ IF r.done
                THEN ExecutionEnds(r) /\ UNCHANGED tasks
                ELSE ExecutionAwaits(r) /\ tasks' = Append(tasks, r.frame)
    /\ UNCHANGED <<fvars, rvars, hvars, pipelines, plugin_instances>>

\* execute_pipeline called while no other call is suspended.
ExecuteBegin == Len(tasks) < MaxTasks /\ ExecuteCall

\* execute_pipeline called while up to MaxConcurrent - 1 other calls are
\* suspended at an await.
ExecuteBeginConcurrently == Len(tasks) < MaxConcurrent /\ ExecuteCall

\* The plugin call a suspended execute_pipeline awaits is over, and the call
\* goes on to the next node's await or to its end.
ExecuteStep ==
    /\ \E t \in 1 .. Len(tasks), outcome \in NodeOutcomes :
       \E r \in {Resume(pipelines, plugin_instances, active_executions,
                         tasks[t], outcome)} :
        IF r.done
        THEN /\ ExecutionEnds(r)
             /\ tasks' = [i \in 1 .. Len(tasks) - 1 |->
                             IF i < t THEN tasks[i] ELSE tasks[i + 1]]
        ELSE /\ ExecutionAwaits(r)
             /\ tasks' = [tasks EXCEPT ![t] = r.frame]
    /\ UNCHANGED <<fvars, rvars, hvars, pipelines, plugin_instances, uuids>>

\* await loader.discover_and_load_all() on a plugins directory that exists.
Discover ==
    /\ \E outs \in [1 .. Len(plugins_dir) -> ScanOutcomes] :
       \E D \in {DiscoverAndLoadAll(FW, loaded_modules, plugins_dir, outs,
                                    Len(plugins_dir))} :
        /\ SetFW(D.F)
        /\ loaded_modules' = D.modules
        /\ last' = [LastNone EXCEPT !.op = "discover", !.results = D.results,
                        !.scan = D.scan, !.kept = D.kept]
    /\ UNCHANGED <<hvars, pvars, lvars, plugin_types, plugins_dir, validators,
                   error_handlers, middleware_stack, capability_cache,
                   metrics, dispatched>>

\* await loader.reload_plugin(plugin_id) for a plugin that is loaded.
Reload ==
    /\ \E k \in 1 .. Len(plugins), cleanupRaises \in BOOLEAN,
          outs \in [1 .. Len(plugins_dir) -> ScanOutcomes] :
       \E r \in {ReloadPlugin(FW, loaded_modules, plugins_dir,
                              plugins[k].plugin_id, cleanupRaises, outs)} :
        /\ SetFW(r.D.F)
        /\ loaded_modules' = r.D.modules
        /\ last' = [LastNone EXCEPT !.op = "reload",
                        !.pid = plugins[k].plugin_id,
                        !.cleanupRaises = cleanupRaises,
                        !.ret = r.ret, !.results = r.D.results,
                        !.scan = r.D.scan, !.kept = r.D.kept]
    /\ UNCHANGED <<hvars, pvars, lvars, plugin_types, plugins_dir, validators,
                   error_handlers, middleware_stack, capability_cache,
                   metrics, dispatched>>

\* plugin_framework.register_plugin_type(plugin_type, plugin_class): lines
\* 122-132.
RegisterPluginType ==
    /\ \E plugin_type \in PluginTypes :
        /\ plugin_types' = plugin_types \cup {plugin_type}
        /\ plast' = [PLastNone EXCEPT !.op = "register_plugin_type",
                         !.plugin_type = plugin_type,
                         !.pre_instances = plugin_instances]
    /\ UNCHANGED <<fvars, hvars, pipelines, active_executions,
                   plugin_instances, uuids, tasks, plugins_dir,
                   loaded_modules>>

\* await plugin_framework.load_plugin(plugin_type, plugin_id, config).  The
\* constructor's and initialize()'s outcomes are drawn where the code
\* reaches them.
RegistryLoad ==
    /\ \E plugin_type \in PluginTypes, plugin_id \in PluginIds,
          ctorRaises \in BOOLEAN, init \in {"none", "true", "false", "raise"} :
        /\ ctorRaises => plugin_type \in plugin_types
        /\ init # "none" <=> (plugin_type \in plugin_types /\ ~ctorRaises)
        /\ \E r \in {PluginFrameworkLoad(plugin_types, plugin_instances,
                                         plugin_type, plugin_id, ctorRaises,
                                         init)} :
            /\ plugin_instances' = r.instances
            /\ plast' = [PLastNone EXCEPT !.op = "load_plugin",
                             !.plugin_type = plugin_type,
                             !.plugin_id = plugin_id, !.init = init,
                             !.raised = ctorRaises, !.ret = r.ret,
                             !.pre_instances = plugin_instances]
    /\ UNCHANGED <<fvars, hvars, pipelines, active_executions, uuids, tasks,
                   plugin_types, plugins_dir, loaded_modules>>

\* await plugin_framework.unload_plugin(plugin_id).
RegistryUnload ==
    /\ \E plugin_id \in PluginIds, cleanupRaises \in BOOLEAN :
        /\ cleanupRaises => plugin_id \in plugin_instances
        /\ \E r \in {PluginFrameworkUnload(plugin_instances, plugin_id,
                                           cleanupRaises)} :
            /\ plugin_instances' = r.instances
            /\ plast' = [PLastNone EXCEPT !.op = "unload_plugin",
                             !.plugin_id = plugin_id,
                             !.raised = cleanupRaises, !.ret = r.ret,
                             !.pre_instances = plugin_instances]
    /\ UNCHANGED <<fvars, hvars, pipelines, active_executions, uuids, tasks,
                   plugin_types, plugins_dir, loaded_modules>>

\* ------------------------------------------------------- specifications

\* The registry: plugins are loaded and unloaded, one call after the other.
Next == Load \/ Unload \/ Stop \/ AddValidator

Spec == Init /\ [][Next]_vars

\* The dispatcher and its cache: capability calls between loads and unloads,
\* with middleware, one call after the other.
NextCache == Load \/ Unload \/ AddMiddleware \/ Call

SpecCache == Init /\ [][NextCache]_vars

\* The error path of the dispatcher: capability calls with and without an
\* error handler.
NextErrors == Load \/ AddErrorHandler \/ Call

SpecErrors == Init /\ [][NextErrors]_vars

\* call_multiple run without interruption, after single calls that fill the
\* cache.
NextMultiple == Load \/ AddMiddleware \/ Call \/ CallAll

SpecMultiple == Init /\ [][NextMultiple]_vars

\* The framework after register_plugin was called for the first i plugin
\* objects of insts, none of them under an id already registered.
RECURSIVE RegisterAll(_, _)
RegisterAll(insts, i) ==
    IF i = 0 THEN [plugins |-> <<>>, global_capabilities |-> <<>>]
    ELSE RegisterPlugin(RegisterAll(insts, i - 1), insts[i]).F

\* The framework after up to MaxPlugins register_plugin calls and up to
\* MaxChain add_middleware calls.
InitChain ==
    /\ HooksInit
    /\ EngineInit
    /\ LifecycleInit
    /\ RegistryInit
    /\ LoaderInit
    /\ \E insts \in UNION {[1 .. n -> [plugin_id : PluginIds,
                                       capabilities : SUBSET Caps]] :
                              n \in 0 .. MaxPlugins} :
        /\ \A i, j \in 1 .. Len(insts) :
               i # j => insts[i].plugin_id # insts[j].plugin_id
        /\ plugins = RegisterAll(insts, Len(insts)).plugins
        /\ global_capabilities =
               RegisterAll(insts, Len(insts)).global_capabilities
    /\ validators = 0
    /\ error_handlers = {}
    /\ middleware_stack \in
           UNION {[1 .. n -> Middlewares] : n \in 0 .. MaxChain}
    /\ capability_cache = <<>>
    /\ metrics = [calls |-> 0, errors |-> 0, cache_hits |-> 0]
    /\ cm = CmIdle
    /\ dispatched = [pid \in PluginIds |-> 0]
    /\ last = LastNone

\* The cache after n calls of capability 1 with the arguments 1 .. n, each
\* answered by plugin 1 and stored.
FilledCache(n) ==
    [i \in 1 .. n |->
        [key |-> GenerateCacheKey(1, i, NoPlugin),
         value |-> [by |-> 1, val |-> 1]]]

\* A framework whose plugin 1 provides every capability, with or without a
\* middleware that rewrites the arguments, after enough cached calls to leave
\* the cache full or one entry short of it.
InitEviction ==
    /\ HooksInit
    /\ EngineInit
    /\ LifecycleInit
    /\ RegistryInit
    /\ LoaderInit
    /\ plugins = RegisterAll(<<[plugin_id |-> 1, capabilities |-> Caps]>>,
                             1).plugins
    /\ global_capabilities =
           RegisterAll(<<[plugin_id |-> 1, capabilities |-> Caps]>>,
                       1).global_capabilities
    /\ validators = 0
    /\ error_handlers = {}
    /\ middleware_stack \in {<<>>, <<"first">>}
    /\ \E n \in {CacheCapacity - 1, CacheCapacity} :
        /\ capability_cache = FilledCache(n)
        /\ metrics = [calls |-> 0, errors |-> 0, cache_hits |-> 0]
    /\ cm = CmIdle
    /\ dispatched = [pid \in PluginIds |-> 0]
    /\ last = LastNone

\* The cache at its capacity: capability calls on a cache that earlier calls
\* have filled.
NextEviction == Call

SpecEviction == InitEviction /\ [][NextEviction]_vars

\* The middleware chain: capability calls to plugins registered beforehand,
\* through a chain of middleware registered beforehand.
NextChain == Call

SpecChain == InitChain /\ [][NextChain]_vars

\* call_multiple as one task among others: between two awaits of its loop
\* other tasks load and unload plugins.
NextAsync == Load \/ Unload \/ CmBegin \/ CmStep

SpecAsync == Init /\ [][NextAsync]_vars

\* Hooks: plugin objects register hooks, plugins are registered, and events
\* are triggered on one plugin or emitted to all registered plugins.
NextHooks == Register \/ Hook \/ Trigger \/ Emit

SpecHooks == Init /\ [][NextHooks]_vars

\* The events of the plugin life cycle: loads, unloads and stops whose
\* plugin_loaded and plugin_unloaded events are followed.
NextEvents == LoadLogged \/ UnloadLogged \/ StopLogged

SpecEvents == Init /\ [][NextEvents]_vars

\* Capability calls while a load_plugin is suspended in initialize() or an
\* unload_plugin is suspended in cleanup().
NextLifecycle ==
    LoadSuspend \/ LoadResume \/ UnloadSuspend \/ UnloadResume \/ Call

SpecLifecycle == Init /\ [][NextLifecycle]_vars

\* Pipeline graphs: a pipeline is created, nodes are added and connected, and
\* its execution order is asked for.
NextGraph ==
    \/ CreatePipeline
    \/ AddPipelineNodeCall
    \/ ConnectPipelineNodesCall
    \/ GetExecutionOrderCall

SpecGraph == Init /\ [][NextGraph]_vars

\* The nodes dicts that add_pipeline_node and connect_pipeline_nodes calls
\* build with up to MaxBuiltNodes nodes and MaxBuiltEdges connections.
BuiltNodes ==
    {nodes \in UNION {[1 .. n -> [node_id : 1 .. MaxBuiltNodes,
                                  plugin_id : PluginIds,
                                  connections :
                                      {<<>>} \cup {<<t>> : t \in NodeIds}]] :
                         n \in 0 .. MaxBuiltNodes} :
        /\ \A i, j \in 1 .. Len(nodes) :
               i # j => nodes[i].node_id # nodes[j].node_id
        /\ EdgeCountFrom(nodes, 1) <= MaxBuiltEdges}

\* An engine after create_pipeline, the calls that build the pipeline, and
\* the creation of plugin instances in the registry.
InitExecute ==
    /\ FrameworkInit
    /\ HooksInit
    /\ \E nodes \in BuiltNodes :
           pipelines = <<[pipeline_id |-> 1, nodes |-> nodes]>>
    /\ active_executions = <<>>
    /\ plugin_instances \in SUBSET PluginIds
    /\ uuids = 1
    /\ tasks = <<>>
    /\ plast = PLastNone

\* Executions of a pipeline that was built beforehand.
NextExecute == ExecuteBegin \/ ExecuteStep

SpecExecute == InitExecute /\ [][NextExecute]_vars

\* An engine with one pipeline of two nodes, the first connected to the
\* second, and the registry holding an instance for both or for the first
\* only.
InitInterleave ==
    /\ FrameworkInit
    /\ HooksInit
    /\ pipelines =
           <<[pipeline_id |-> 1,
              nodes |-> <<[node_id |-> 1, plugin_id |-> 1,
                           connections |-> <<2>>],
                          [node_id |-> 2, plugin_id |-> 2,
                           connections |-> <<>>]>>]>>
    /\ active_executions = <<>>
    /\ plugin_instances \in {{1}, PluginIds}
    /\ uuids = 1
    /\ tasks = <<>>
    /\ plast = PLastNone

\* Executions of the same pipeline that interleave at their awaits.
NextInterleave == ExecuteBeginConcurrently \/ ExecuteStep

SpecInterleave == InitInterleave /\ [][NextInterleave]_vars

\* A loader over a plugins directory that holds up to MaxCandidates
\* candidates.
InitLoader ==
    /\ CoreInit
    /\ HooksInit
    /\ EngineInit
    /\ plugins_dir \in Listings
    /\ loaded_modules = {}

\* Discovery and hot reload.
NextLoader == Discover \/ Reload

SpecLoader == InitLoader /\ [][NextLoader]_vars

\* The instance registry: types are registered, instances are loaded and
\* unloaded.
NextRegistry == RegisterPluginType \/ RegistryLoad \/ RegistryUnload

SpecRegistry == Init /\ [][NextRegistry]_vars

\* ------------------------------------------------------------ properties

\* The ids of the registered plugins that have capability c, in the order of
\* their registration.
HaveCapability(c) ==
    SelectSeq(PluginSeqIds(plugins),
              LAMBDA pid : c \in PluginOf(plugins, pid).capabilities)

\* pid is in no provider list.
Unlisted(pid) ==
    \A c \in DOMAIN global_capabilities : pid \notin Range(global_capabilities[c])

\* C1: in every state reached by load_plugin, unload_plugin and stop calls,
\* the provider list of each capability holds exactly the ids of the
\* registered plugins that have it, each once and in registration order; no
\* entry holds an empty list; and the providers of a capability without an
\* entry are the empty list, returned without error.
C1_ProviderListsExact ==
    /\ \A i, j \in 1 .. Len(plugins) :
           plugins[i].plugin_id = plugins[j].plugin_id => i = j
    /\ DOMAIN global_capabilities \subseteq Caps
    /\ \A c \in Caps :
        /\ c \in DOMAIN global_capabilities <=> HaveCapability(c) # <<>>
        /\ c \in DOMAIN global_capabilities =>
               global_capabilities[c] = HaveCapability(c)
        /\ DiscoverProviders(FW, c) =
               [raised |-> FALSE, ids |-> HaveCapability(c)]

\* C1's case: an unload has just removed the last provider of a capability
\* while another plugin, registered later than a lower id, stays listed.
C1_Witness ==
    /\ last.op = "unload" /\ last.ret
    /\ plugins # <<>>
    /\ \E c \in Caps : c \notin DOMAIN global_capabilities
    /\ \E c \in DOMAIN global_capabilities : global_capabilities[c] # <<>>

\* C2: unload_plugin on a registered id whose cleanup() raises still removes
\* the instance from the plugin map and its id from every provider list, and
\* reports success.
C2_UnloadDespiteCleanupError ==
    (last.op = "unload" /\ last.was_registered /\ last.cleanupRaises) =>
        /\ last.ret
        /\ ~IsRegistered(plugins, last.pid)
        /\ Unlisted(last.pid)

\* C3: when initialize() returns false, load_plugin returns false and the
\* instance is afterwards absent from the plugin map and from every provider
\* list, and no entry holds an empty list.
C3_InitializeFalseRollsBack ==
    (last.op = "load" /\ last.init = "false") =>
        /\ ~last.ret
        /\ ~IsRegistered(plugins, last.pid)
        /\ Unlisted(last.pid)
        /\ \A c \in DOMAIN global_capabilities : global_capabilities[c] # <<>>

\* C4: load_plugin changes the plugin map and the index only for an instance
\* with a non-empty id and at least one capability, whose validators all
\* returned true without raising and whose dependencies are all registered;
\* for any other instance it returns false, and the plugin map and every
\* provider list are as they were.
C4_LoadFailsClosed ==
    last.op = "load" =>
        /\ FW # last.pre_fw => last.why = "none"
        /\ last.ret => last.why = "none"
        /\ last.why # "none" => ~last.ret /\ FW = last.pre_fw

\* C4's case: with a plugin registered, a load was refused because a validator
\* raised.
C4_Witness ==
    /\ last.op = "load" /\ last.why = "validator_raise"
    /\ plugins # <<>>
    /\ ~last.ret

\* The same call as the last one, made again at once with use_cache=True;
\* outcome is what the handler would do if it were invoked.
Again(outcome) ==
    CallCapability(SS, error_handlers, last.cap, last.args, last.pid, TRUE,
                   outcome, FALSE, FALSE)

\* C5: after a call_capability with use_cache=True that invoked the handler
\* and returned a result small enough to be cached, whatever middleware is
\* registered, the same call made again (same name, plugin_id and arguments)
\* is served from the cache: it invokes no handler, returns the value the
\* first call returned, and adds one to the cache-hit metric.
C5_SecondCallHitsCache ==
    (/\ last.op = "call" /\ last.use_cache /\ ~last.hit
     /\ last.raised = "none" /\ ShouldCache(last.cap, last.result)) =>
        /\ last.invoked = <<last.target>>
        /\ \A outcome \in Outcomes :
               /\ Again(outcome).hit
               /\ ~Again(outcome).invoked
               /\ Again(outcome).raised = "none"
               /\ Again(outcome).result = last.result
               /\ Again(outcome).S.metrics.cache_hits = metrics.cache_hits + 1

\* C6: a call_capability on a name that has no registered provider, or with
\* a plugin_id that is not one of the name's providers, raises to its caller,
\* whatever use_cache is and whatever was loaded and unloaded before.
C6_NoProviderRaises ==
    (/\ last.op = "call"
     /\ \/ ProvidersOf(last.cap) = <<>>
        \/ last.pid # NoPlugin /\ last.pid \notin Range(ProvidersOf(last.cap)))
    => last.raised # "none"

\* C7: when the try block of call_capability raises, the error metric grows
\* by exactly one, then the handler registered for capability_call_error (if
\* any) runs once, then the error event goes to every loaded plugin, then
\* the original exception reaches the caller, also when the error handler or a
\* hook raises.
C7_ErrorPath ==
    (last.op = "call" /\ last.cause # "none") =>
        /\ metrics.errors = last.pre_metrics.errors + 1
        /\ last.steps =
               <<"errors_incremented">>
               \o (IF "capability_call_error" \in error_handlers
                   THEN <<"error_handler">> ELSE <<>>)
               \o <<"error_event", "reraise">>
        /\ last.to = PluginSeqIds(plugins)
        /\ last.raised = last.cause

\* C7's case: with two plugins loaded and an error handler registered, a
\* capability handler raised, and so did the error handler and a hook.
C7_Witness ==
    /\ last.op = "call" /\ last.cause = "HandlerError"
    /\ last.handlerRaises /\ last.hookRaises
    /\ Len(plugins) = 2
    /\ "capability_call_error" \in error_handlers

\* The first of the providers with the fewest dispatches in `counts`.
LeastDispatched(providers, counts) ==
    providers[CHOOSE i \in 1 .. Len(providers) :
                 /\ \A j \in 1 .. Len(providers) :
                        counts[providers[i]] <= counts[providers[j]]
                 /\ \A j \in 1 .. i - 1 :
                        counts[providers[j]] > counts[providers[i]]]

\* The dispatch counts before the last call.
DispatchedBefore ==
    IF last.invoked = <<>> THEN dispatched
    ELSE [dispatched EXCEPT ![last.target] = @ - 1]

\* C8: a call_capability without plugin_id that is not served from the cache
\* dispatches to the provider invoked the fewest times by the earlier calls,
\* the earliest registered of them on a tie.
C8_LeastInvokedProvider ==
    (/\ last.op = "call" /\ last.pid = NoPlugin /\ ~last.hit
     /\ last.target # NoPlugin)
    => last.target = LeastDispatched(ProvidersOf(last.cap), DispatchedBefore)

C10_CoversProvidersAtStart ==
    last.op = "call_multiple" =>
        \A p \in Range(last.start) :
            \E k \in 1 .. Len(last.results) : last.results[k].plugin_id = p

\* C13: registering an id that is already registered is not an error: a
\* load_plugin of an otherwise loadable instance whose id is registered
\* reports success, and the id stays listed once under each capability.
C13_RegisterIdempotent ==
    (last.op = "load" /\ last.was_registered /\ last.why = "none") =>
        /\ last.ret
        /\ \A c \in DOMAIN global_capabilities :
               Cardinality({i \in 1 .. Len(global_capabilities[c]) :
                               global_capabilities[c][i] = last.pid}) <= 1

\* The arguments after the first i middleware of the stack, each given what
\* the one before it returned.
RECURSIVE ChainArgs(_, _, _)
ChainArgs(stack, args, i) ==
    IF i = 0 THEN args
    ELSE ApplyMiddleware(stack[i], ChainArgs(stack, args, i - 1)).args

\* C11: a call_capability that reaches a plugin handler has called every
\* registered middleware once, in registration order, each with the arguments
\* the one before it returned, none of them raised, and the handler was called
\* with the arguments the last middleware returned.
C11_MiddlewareInOrder ==
    (last.op = "call" /\ last.invoked # <<>>) =>
        /\ Len(last.seen) = Len(middleware_stack)
        /\ \A i \in 1 .. Len(middleware_stack) :
               /\ last.seen[i].mw = middleware_stack[i]
               /\ last.seen[i].args =
                      ChainArgs(middleware_stack, last.args, i - 1)
               /\ ~ApplyMiddleware(middleware_stack[i], last.seen[i].args).raised
        /\ last.passed =
               ChainArgs(middleware_stack, last.args, Len(middleware_stack))

\* C11's case: a call reached the handler through two different middleware
\* whose order matters for the arguments the handler gets.
C11_Witness ==
    /\ last.op = "call" /\ last.invoked # <<>>
    /\ middleware_stack = <<"next", "first">>
    /\ last.args = 1
    /\ last.passed = 1

\* The hooks a plugin object holds for an event, in registration order.
HooksFor(pid, ev) == IF ev \in DOMAIN hooks[pid] THEN hooks[pid][ev] ELSE <<>>

\* The calls of a trace that went to one plugin's hooks.
CallsTo(calls, pid) == SelectSeq(calls, LAMBDA k : k.pid = pid)

\* Every hook of the list of (pid, ev), once each, in registration order.
EachOnceInOrder(pid, ev) ==
    [i \in 1 .. Len(HooksFor(pid, ev)) |->
        [pid |-> pid, event |-> ev, hook |-> i]]

\* C12: trigger_hooks(event) calls every hook registered for that event once,
\* in registration order, whether or not some of them raise, calls no hook of
\* another event, and does not raise; emit_event(event) does so for every
\* registered plugin, calls no hook of an unregistered plugin, and does not
\* raise.
C12_HooksAllRunInOrder ==
    /\ hlast.op = "trigger_hooks" =>
           /\ ~hlast.raised
           /\ hlast.calls = EachOnceInOrder(hlast.pid, hlast.event)
    /\ hlast.op = "emit_event" =>
           /\ ~hlast.raised
           /\ \A pid \in PluginIds :
                  CallsTo(hlast.calls, pid) =
                      IF IsRegistered(plugins, pid)
                      THEN EachOnceInOrder(pid, hlast.event)
                      ELSE <<>>

\* C12's case: an event was emitted to a registered plugin that holds a
\* raising hook followed by another hook for it, and a hook for another event.
C12_Witness ==
    /\ hlast.op = "emit_event"
    /\ \E pid \in PluginIds, other \in Events :
        /\ IsRegistered(plugins, pid)
        /\ other # hlast.event
        /\ HooksFor(pid, other) # <<>>
        /\ HooksFor(pid, hlast.event) = <<"raises", "returns">>

\* The pipeline the most recent pipeline operation was called on, as it is
\* now.
PLastPipeline == PipelineOf(pipelines, plast.pipeline_id)

\* u -> v is a connection between two existing nodes of p.
Edge(p, u, v) ==
    HasNode(p, u) /\ HasNode(p, v) /\ v \in Range(NodeOf(p, u).connections)

\* v is reached from u along at most k connections between existing nodes.
RECURSIVE ReachIn(_, _, _, _)
ReachIn(p, u, v, k) ==
    \/ Edge(p, u, v)
    \/ k > 1 /\ \E w \in NodeIds : Edge(p, u, w) /\ ReachIn(p, w, v, k - 1)

Acyclic(p) == \A u \in NodeIds : ~ReachIn(p, u, u, MaxNodes)

\* The position of an id in a list, 0 if it is not in it.
PositionIn(list, x) ==
    IF x \in Range(list) THEN CHOOSE i \in 1 .. Len(list) : list[i] = x ELSE 0

\* C16: the list get_execution_order returns for an acyclic pipeline is a
\* topological order: the source of every connection between two existing
\* nodes comes before its target.
C16_TopologicalOrder ==
    (plast.op = "get_execution_order" /\ Acyclic(PLastPipeline)) =>
        \A u \in NodeIds, v \in NodeIds :
            Edge(PLastPipeline, u, v) =>
                PositionIn(plast.order, u) < PositionIn(plast.order, v)

C19_ConnectReportsUnknownSource ==
    plast.op = "connect_pipeline_nodes" =>
        /\ (HasPipeline(plast.pre, plast.pipeline_id)
              /\ ~HasNode(PipelineOf(plast.pre, plast.pipeline_id),
                          plast.node_id)) =>
               (~plast.ret /\ pipelines = plast.pre)
        /\ plast.ret =>
               /\ HasNode(PLastPipeline, plast.node_id)
               /\ plast.target \in
                      Range(NodeOf(PLastPipeline, plast.node_id).connections)

\* The record of the execution the most recent execute_pipeline created.
PLastExecution == ExecutionOf(active_executions, plast.execution_id)

\* The most recent operation is an execute_pipeline call that is over, on a
\* pipeline that exists.
ExecutionOver == plast.op = "execute_pipeline" /\ plast.execution_id # UnknownId

\* The node at position k of the execution order failed: its plugin call
\* raised, or its plugin id is not in the registry.
FailsAt(k) ==
    \/ NodeOf(PLastPipeline, plast.order[k]).plugin_id \notin plugin_instances
    \/ \E j \in 1 .. Len(plast.trace) :
           plast.trace[j].node_id = plast.order[k]
               /\ plast.trace[j].outcome.raises

\* C14: when the node at position k of the execution order raises or is
\* bound to a plugin id that is not registered, no node after position k has
\* its plugin called, no node is called twice, and the call, once over, has
\* raised and left its record failed with the error.
C14_NodeFailureAborts ==
    plast.execution_id # UnknownId =>
        \A k \in 1 .. Len(plast.order) :
            FailsAt(k) =>
                /\ \A j \in 1 .. Len(plast.trace) :
                       /\ PositionIn(plast.order, plast.trace[j].node_id) <= k
                       /\ \A i \in 1 .. Len(plast.trace) :
                              plast.trace[i].node_id = plast.trace[j].node_id
                                  => i = j
                /\ ExecutionOver =>
                       /\ plast.raised
                       /\ PLastExecution.status = "failed"
                       /\ PLastExecution.error # "none"

\* C14's case: the second node of the order raised after the first returned.
C14_Witness ==
    /\ ExecutionOver
    /\ Len(plast.trace) = 2
    /\ ~plast.trace[1].outcome.raises
    /\ plast.trace[2].outcome.raises

\* What the k-th plugin call returned, as a dict: a plugin object without
\* execute and process returns the data it was given.
MapOutput(trace, k) ==
    IF trace[k].outcome.echo THEN trace[k].given ELSE trace[k].outcome.val

\* input_data overlaid with the map-shaped outputs of the first k calls.
RECURSIVE Overlaid(_, _, _)
Overlaid(input_data, trace, k) ==
    IF k = 0 THEN input_data
    ELSE IF trace[k].outcome.is_map
         THEN [key \in DOMAIN Overlaid(input_data, trace, k - 1)
                       \cup DOMAIN MapOutput(trace, k) |->
                  IF key \in DOMAIN MapOutput(trace, k)
                  THEN MapOutput(trace, k)[key]
                  ELSE Overlaid(input_data, trace, k - 1)[key]]
         ELSE Overlaid(input_data, trace, k - 1)

\* C15: in an execute_pipeline that returned, the k-th node of the order was
\* handed input_data overlaid with the map-shaped outputs of the nodes before
\* it, final_output is input_data overlaid with all of them, an output that
\* is not a map is recorded under its node id, and node_outputs has one entry
\* per node of the pipeline.
C15_OutputsThreadedForward ==
    (ExecutionOver /\ ~plast.raised) =>
        /\ Len(plast.trace) = Len(plast.order)
        /\ \A k \in 1 .. Len(plast.trace) :
               /\ plast.trace[k].node_id = plast.order[k]
               /\ plast.trace[k].given =
                      Overlaid(plast.input, plast.trace, k - 1)
               /\ \E i \in 1 .. Len(plast.node_outputs) :
                      /\ plast.node_outputs[i].node_id = plast.order[k]
                      /\ plast.node_outputs[i].is_map =
                             plast.trace[k].outcome.is_map
        /\ plast.final_output =
               Overlaid(plast.input, plast.trace, Len(plast.trace))
        /\ Len(plast.node_outputs) = Len(PLastPipeline.nodes)
        /\ {plast.node_outputs[i].node_id :
               i \in 1 .. Len(plast.node_outputs)}
               = Range(NodeIdsOf(PLastPipeline))

\* C15's case: two nodes returned maps with different values for a key that
\* input_data holds too, and the call returned.
C15_Witness ==
    /\ ExecutionOver /\ ~plast.raised
    /\ Len(plast.trace) = 2
    /\ \E key \in DOMAIN plast.input :
        /\ ~plast.trace[1].outcome.echo /\ ~plast.trace[2].outcome.echo
        /\ key \in DOMAIN plast.trace[1].outcome.val
        /\ key \in DOMAIN plast.trace[2].outcome.val
        /\ plast.trace[1].outcome.val[key] # plast.trace[2].outcome.val[key]

\* Some node of p lists a connection to an id that is not a node of p.
HasDangling(p) ==
    \E i \in 1 .. Len(p.nodes) :
        \E t \in Range(p.nodes[i].connections) : ~HasNode(p, t)

\* C18: an execute_pipeline on a pipeline in which some node's connections
\* name an id that is not a node raises and leaves its record failed.
C18_DanglingConnectionFails ==
    (ExecutionOver /\ HasDangling(PLastPipeline)) =>
        plast.raised /\ PLastExecution.status = "failed"

\* C20: every execute_pipeline on an existing pipeline has exactly one
\* record; a record is running exactly while its call is suspended, and once
\* the call is over it is completed if the call returned and failed if it
\* raised; records are never removed, and a completed or failed record never
\* changes again.
C20_RecordLifecycle ==
    /\ [](/\ \A i \in 1 .. Len(active_executions) :
               /\ active_executions[i].status
                      \in {"running", "completed", "failed"}
               /\ active_executions[i].status = "running" <=>
                      \E t \in 1 .. Len(tasks) :
                          tasks[t].execution_id
                              = active_executions[i].execution_id
          /\ plast.execution_id # UnknownId =>
                 Cardinality({i \in 1 .. Len(active_executions) :
                                 active_executions[i].execution_id
                                     = plast.execution_id}) = 1
          /\ ExecutionOver =>
                 PLastExecution.status =
                     IF plast.raised THEN "failed" ELSE "completed")
    /\ [][/\ Len(active_executions') >= Len(active_executions)
          /\ Len(active_executions') <= Len(active_executions) + 1
          /\ \A i \in 1 .. Len(active_executions) :
                 /\ active_executions'[i].execution_id
                        = active_executions[i].execution_id
                 /\ active_executions[i].status \in {"completed", "failed"}
                        => active_executions'[i] = active_executions[i]]_vars

\* C20's case: one call raised and another returned, each leaving its own
\* record.
C20_Witness ==
    /\ Len(active_executions) = 2
    /\ active_executions[1].status = "failed"
    /\ active_executions[2].status = "completed"
    /\ ExecutionOver /\ ~plast.raised

\* C27: when initialize() raises during load_plugin, load_plugin returns
\* false and the plugin map and the capability index are as they were before
\* the call: the instance is not left registered.
C27_InitializeRaiseRollsBack ==
    (last.op = "load" /\ last.init = "raise") =>
        /\ ~last.ret
        /\ ~IsRegistered(plugins, last.pid)
        /\ Unlisted(last.pid)
        /\ FW = last.pre_fw

\* How many of the first n events of the history are the event name for pid.
EventCount(name, pid, n) ==
    Cardinality({i \in 1 .. n :
                    event_log[i] = [name |-> name, pid |-> pid]})

\* C30: every plugin_unloaded event for an id comes after a plugin_loaded
\* event for that id that no earlier plugin_unloaded has matched: up to each
\* plugin_unloaded, more plugin_loaded than plugin_unloaded events went out
\* for the id.
C30_UnloadAfterLoad ==
    \A i \in 1 .. Len(event_log) :
        event_log[i].name = "plugin_unloaded" =>
            EventCount("plugin_loaded", event_log[i].pid, i - 1)
                > EventCount("plugin_unloaded", event_log[i].pid, i - 1)

\* The ids of the plugins whose initialize() or cleanup() is awaited.
SuspendedIds == {suspended[k].inst.plugin_id : k \in 1 .. Len(suspended)}

\* C26: a call_capability never invokes a handler of a plugin whose
\* load_plugin is suspended inside initialize() or whose unload_plugin is
\* suspended inside cleanup().
C26_NoCallDuringInitOrCleanup ==
    last.op = "call" =>
        \A i \in 1 .. Len(last.invoked) : last.invoked[i] \notin SuspendedIds

\* C25: an execution's record does not outlive the execution: once the
\* execute_pipeline call has returned or raised, its record is no longer
\* among the records, and list_active_executions holds running executions
\* only.
C25_RecordsDiscarded ==
    /\ \A i \in 1 .. Len(ListActiveExecutions) :
           ListActiveExecutions[i].status = "running"
    /\ ExecutionOver =>
           \A i \in 1 .. Len(active_executions) :
               active_executions[i].execution_id # plast.execution_id

\* C29: the node_outputs an execute_pipeline returns hold, for every node,
\* what the node's plugin call returned at the time it returned; for a
\* plugin with neither execute nor process that is the data the node was
\* handed.
C29_NodeOutputsStable ==
    (ExecutionOver /\ ~plast.raised) =>
        \A k \in 1 .. Len(plast.trace) :
            plast.trace[k].outcome.is_map =>
                \A i \in 1 .. Len(plast.node_outputs) :
                    plast.node_outputs[i].node_id = plast.trace[k].node_id
                        => plast.node_outputs[i].val
                               = MapOutput(plast.trace, k)

\* C28: whenever PluginFramework.load_plugin returns false, the ids of the
\* registry's instance map are the ones it held before the call: no instance
\* is left under plugin_id, and an instance registered under plugin_id before
\* the call is still registered.
C28_FailedLoadKeepsInstances ==
    (plast.op = "load_plugin" /\ ~plast.ret) =>
        plugin_instances = plast.pre_instances

\* The call took the first k entries out of the cache it started on and kept
\* the others in their order, followed by the entry it stored if that was a
\* new key.
EvictedFirst(k) ==
    /\ k <= Len(last.pre_cache)
    /\ Len(capability_cache) - (Len(last.pre_cache) - k) \in {0, 1}
    /\ \A i \in k + 1 .. Len(last.pre_cache) :
           capability_cache[i - k].key = last.pre_cache[i].key
    /\ Len(capability_cache) > Len(last.pre_cache) - k =>
           \A i \in 1 .. Len(last.pre_cache) :
               capability_cache[Len(capability_cache)].key
                   # last.pre_cache[i].key

\* C24: the cache never holds more than CacheCapacity entries once a
\* call_capability has returned; a call that inserts a new key into a full
\* cache evicts exactly the CacheEvictBatch entries inserted first, any
\* other call evicts nothing, and the entries left keep their order.
C24_CacheBounded ==
    /\ Len(capability_cache) <= CacheCapacity
    /\ last.op = "call" =>
           IF Len(capability_cache) < Len(last.pre_cache)
           THEN /\ Len(last.pre_cache) = CacheCapacity
                /\ EvictedFirst(CacheEvictBatch)
                /\ Len(capability_cache)
                       = CacheCapacity + 1 - CacheEvictBatch
           ELSE EvictedFirst(0)

\* C24's case: a call stored a new key in a full cache, and the cache is
\* left with the entries that followed the first CacheEvictBatch.
C24_Witness ==
    /\ last.op = "call"
    /\ Len(last.pre_cache) = CacheCapacity
    /\ Len(capability_cache) = CacheCapacity + 1 - CacheEvictBatch
    /\ capability_cache[1].key = last.pre_cache[CacheEvictBatch + 1].key

\* execute_pipeline(pipeline_id, input_data) run with no other execution in
\* the engine, up to the return of its k-th plugin call, the calls doing what
\* trace says.
RECURSIVE Alone(_, _, _, _, _)
Alone(execution_id, pipeline_id, input_data, trace, k) ==
    IF k = 0
    THEN BeginExecution(pipelines, plugin_instances, <<>>, pipeline_id,
                        execution_id, input_data)
    ELSE Resume(pipelines, plugin_instances,
                Alone(execution_id, pipeline_id, input_data, trace,
                      k - 1).execs,
                Alone(execution_id, pipeline_id, input_data, trace,
                      k - 1).frame,
                trace[k].outcome)

\* The suspended call t, had it run alone up to the await it is at.
TaskAlone(t) ==
    Alone(tasks[t].execution_id, tasks[t].pipeline_id, tasks[t].input,
          tasks[t].trace, Len(tasks[t].trace) - 1)

\* The call that is over, had it run alone.
PLastAlone ==
    Alone(plast.execution_id, plast.pipeline_id, plast.input, plast.trace,
          Len(plast.trace))

\* C21: execute_pipeline calls that interleave at their awaits have distinct
\* execution ids; the running data, the node outputs and the record of a
\* suspended call are those it would have running alone on its input_data,
\* and so are the node_outputs, the final_output and the record of a call
\* that is over.
C21_InterleavedExecutionsIsolated ==
    /\ \A i, j \in 1 .. Len(active_executions) :
           i # j => active_executions[i].execution_id
                        # active_executions[j].execution_id
    /\ \A t \in 1 .. Len(tasks) :
           /\ ~TaskAlone(t).done
           /\ TaskAlone(t).frame = tasks[t]
           /\ TaskAlone(t).execs
                  = <<ExecutionOf(active_executions, tasks[t].execution_id)>>
    /\ ExecutionOver =>
           /\ PLastAlone.done
           /\ PLastAlone.raised = plast.raised
           /\ PLastAlone.execs = <<PLastExecution>>
           /\ ~plast.raised =>
                  /\ plast.final_output = PLastAlone.frame.current_data
                  /\ plast.node_outputs =
                         ResolveOutputs(PLastAlone.frame.node_outputs,
                                        PLastAlone.frame.current_data)

\* C21's case: a call returned after two plugin calls while a call that began
\* after it, on another input_data, is suspended at its second plugin call.
C21_Witness ==
    /\ ExecutionOver /\ ~plast.raised
    /\ Len(plast.trace) = 2
    /\ Len(tasks) = 1
    /\ tasks[1].execution_id > plast.execution_id
    /\ tasks[1].pipeline_id = plast.pipeline_id
    /\ Len(tasks[1].trace) = 2
    /\ tasks[1].input # plast.input
    /\ tasks[1].current_data # plast.final_output

\* C22: after discover_and_load_all, every candidate whose import,
\* construction or initialization failed has the id derived from its path in
\* the result map, mapped to false, and every candidate was processed.
C22_FailedCandidatesRecorded ==
    last.op = "discover" =>
        /\ Len(last.scan) = Len(plugins_dir)
        /\ \A k \in 1 .. Len(last.scan) :
               ~last.scan[k].loaded =>
                   /\ last.scan[k].pid \in DOMAIN last.results
                   /\ ~last.results[last.scan[k].pid]

\* C23: reload_plugin(p) on a loaded plugin removes the old instance, and it
\* returns true exactly when an instance constructed by the reload is
\* registered under p afterwards.
C23_ReloadReplaces ==
    last.op = "reload" =>
        /\ last.ret <=> last.pid \in last.kept
        /\ (IsRegistered(plugins, last.pid) => last.pid \in last.kept)

====
